---- MODULE Spec2Model ----
(***************************************************************************)
(* Verification model of cifra's cryptanalysis engine:                     *)
(*   - the brute-force harness (attack/simple_attacks.py),                 *)
(*   - the language identifier (attack/dictionaries.py),                   *)
(*   - the affine key assessment (attack/affine.py, cipher/affine.py),     *)
(*   - the substitution mapping solver, sequential and with a pool         *)
(*     (attack/substitution.py),                                           *)
(*   - the letter histogram, the repeated sequences, the substrings and    *)
(*     the likely subkeys of the frequency attack (attack/frequency.py),   *)
(*   - the likely key lengths of the Vigenere attack (attack/vigenere.py), *)
(*   - the five cipher families and the modular inverse (cipher/),         *)
(*   - the session of Dictionary.open (attack/dictionaries.py).            *)
(* Probabilities are the floats hits/total of the code, kept here as       *)
(* integers in thousandths (Scale); for the word counts of this model two  *)
(* ratios compare as their thousandths do.                                 *)
(***************************************************************************)
EXTENDS Integers, Naturals, Sequences, FiniteSets, TLC

VARIABLES
    \* ---- brute-force harness ----
    key_stream,     \* the candidates the key generator yields, in order
    assessment,     \* key -> IdentifiedLanguage the assess function returns
    pc,             \* "idle" | "seq" | "mp" | "done"
    seq_pos,        \* position in key_stream of the next key of _brute_force
    seq_results,    \* the results list of _brute_force
    seq_key,        \* what _brute_force returned
    seq_early,      \* _brute_force returned through its early return
    mp_next,        \* next task of pool.map not yet handed to a worker
    mp_running,     \* worker -> task it is assessing (0: idle)
    mp_slots,       \* task -> its result once the worker delivered it
    mp_order,       \* tasks in the order their workers finished
    mp_key,         \* what _brute_force_mp returned
    seq_raised,     \* the key whose assessment raised out of _brute_force
    mp_raised,      \* the key whose assessment raised out of _brute_force_mp
    charset_length, \* len(charset) of the affine attack (0: another attack)
    \* ---- affine key assessment ----
    af_pc,          \* "idle" | "call" | "returned" | "raised"
    af_key,         \* the key _assess_affine_key is called on
    af_deciphered,  \* what _assess_key gives for the key, when it is reached
    af_result,      \* the IdentifiedLanguage _assess_affine_key returned
    \* ---- language identifier ----
    lang_pc,        \* "idle" | "words" | "candidates" | "returned" | "raised"
    text,           \* the text identify_language is called on
    dictionaries,   \* the store: language (in enumeration order) -> its words
    words,          \* get_words_from_text(text)
    candidates,     \* language -> presence, as far as the loop has got
    identified,     \* the IdentifiedLanguage returned
    \* ---- substitution mapping solver ----
    sub_pc,         \* "idle" | "mapping" | "fold" | "expand" | "assess" | "best" | "done" | "raised"
    cipher_key,     \* the key the text was ciphered with
    ciphered_words, \* get_words_from_text(ciphered_text)
    language,       \* the language hack_substitution is working on
    pending_words,  \* ciphered words _generate_language_mapping has not folded yet
    mapping,        \* Mapping._mapping: cipherletter -> set of candidates
    prev_mapping,   \* mapping as it was before the last Mapping call
    last_op,        \* the last Mapping call: "new" | "reduce" | "clean" | "expand"
    possible_mappings, \* the list get_possible_mappings returned
    assess_pos,     \* position in possible_mappings of _assess_candidate_keys
    language_keys,  \* key string -> probability, for the current language
    keys_found,     \* key string -> probability, over the languages so far
    hacked,         \* the (key, probability) hack_substitution returned
    first_assigned, \* cipherletter -> the set reduce_mapping assigned it first
    \* ---- one call of a function of frequency, cryptomath or a cipher ----
    call_pc,        \* "idle" | "call" | "with" | "returned" | "raised"
    call_fn,        \* the function called
    call_args,      \* its arguments
    call_ret,       \* what it returned
    connection      \* the database session of Dictionary.open

harnessVars == <<key_stream, assessment, pc, seq_pos, seq_results, seq_key,
                 seq_early, mp_next, mp_running, mp_slots, mp_order, mp_key,
                 seq_raised, mp_raised>>

affineVars == <<af_pc, af_key, af_deciphered, af_result>>

langVars == <<lang_pc, text, words, candidates, identified>>

subVars == <<sub_pc, cipher_key, ciphered_words, language, pending_words,
             mapping, prev_mapping, last_op, possible_mappings, assess_pos,
             language_keys, keys_found, hacked, first_assigned>>

callVars == <<call_pc, call_fn, call_args, call_ret, connection>>

notHarnessVars == <<affineVars, langVars, subVars, callVars, dictionaries,
                    charset_length>>

vars == <<harnessVars, affineVars, langVars, subVars, callVars,
          dictionaries, charset_length>>

\* ------------------------------------------------------------------ bounds
MaxKey == 4
NumWorkers == 2
MaxTextLen == 3
MaxCandidates == 2
MaxTextWords == 2
MaxCharsetLength == 4
\* find_mod_inverse(a, m) is called with a in 1..MaxModulus + 2 and m in
\* 2..MaxModulus.
MaxModulus == 26
\* find_repeated_sequences and get_substrings read texts of up to
\* MaxRepeatLen characters, with windows and steps of 1..MaxWindow.
MaxRepeatLen == 6
MaxWindow == 2
\* get_word_pattern is called on words of up to MaxWordLen letters.
MaxWordLen == 5
\* The with-block of Dictionary.open adds up to MaxAddedWords words.
MaxAddedWords == 2
\* set_matching_width is called with widths from 0 to MaxWidth.
MaxWidth == 3
\* find_most_likely_subkeys is called with a reference histogram of a text of
\* up to MaxReferenceLen letters and asked for 0 to MaxAmount subkeys.
MaxReferenceLen == 2
MaxAmount == 4
\* _get_likely_key_lengths is called on texts of up to MaxBlocks blocks, with
\* a maximum key length of up to MaxKeyLength.
MaxBlocks == 5
MaxKeyLength == 8

\* ------------------------------------------------------- shared definitions
\* Python's None, for a winner (languages are 1, 2, ...) and for a probability.
None == -1

\* 1.0 as thousandths.
Scale == 1000

\* abs_tol=0.01 of math.isclose, in thousandths.
AbsTol == 10

IdentifiedLanguage(winner, winner_probability, cands) ==
    [winner |-> winner, winner_probability |-> winner_probability,
     candidates |-> cands]

\* math.isclose(p, 1, abs_tol=0.01). For p = 0.99 the float 1 - 0.99 is
\* 0.010000000000000009 > 0.01, so the comparison is strict on this grid.
IsCloseToOneLoose(p) == Scale - p < 800

IsCloseToOne(p) == Scale - p < AbsTol

\* ---------------------------------------------------------- get_best_result
RECURSIVE GetBestResultNoUpdateFrom(_, _, _)
GetBestResultNoUpdateFrom(identified_languages, idx, current_best_key) ==
    IF idx > Len(identified_languages) THEN current_best_key
    ELSE LET current_key == identified_languages[idx][1]
             identified_language == identified_languages[idx][2]
         IN  IF identified_language.winner = None
             THEN GetBestResultNoUpdateFrom(identified_languages, idx + 1,
                                            current_best_key)
             ELSE IF identified_language.winner_probability > 0
             THEN GetBestResultNoUpdateFrom(identified_languages, idx + 1,
                                            current_key)
             ELSE GetBestResultNoUpdateFrom(identified_languages, idx + 1,
                                            current_best_key)

\* get_best_result with the update of current_best_probability forgotten.
GetBestResultNoUpdate(identified_languages) ==
    GetBestResultNoUpdateFrom(identified_languages, 1, 0)

RECURSIVE GetBestResultFrom(_, _, _, _)
GetBestResultFrom(identified_languages, idx, current_best_key, current_best_probability) ==
    IF idx > Len(identified_languages) THEN current_best_key
    ELSE LET current_key == identified_languages[idx][1]
             identified_language == identified_languages[idx][2]
         IN  IF identified_language.winner = None
             THEN GetBestResultFrom(identified_languages, idx + 1,
                                    current_best_key, current_best_probability)
             ELSE IF identified_language.winner_probability
                        > current_best_probability
             THEN GetBestResultFrom(identified_languages, idx + 1, current_key,
                                    identified_language.winner_probability)
             ELSE GetBestResultFrom(identified_languages, idx + 1,
                                    current_best_key, current_best_probability)

GetBestResult(identified_languages) ==
    GetBestResultFrom(identified_languages, 1, 0, 0)

\* ------------------------------------------------------------ key generator
IntegerKeyGenerator(maximum_key) == [n \in 1..(maximum_key - 1) |-> n]

\* The results an assess function can return for a key: no winner, or a
\* winner with its probability.
AssessmentValues ==
    {IdentifiedLanguage(None, None, <<0>>)}
    \cup {IdentifiedLanguage(1, p, <<p>>) : p \in {300, 500, 995, Scale}}

\* -------------------------------------------------------------- _brute_force
\* The early return of _brute_force.
\* What stands for the result of an assessment that raised an exception.
Raise == [exception |-> TRUE]

Raises(identified_language) == identified_language = Raise

EarlyReturn(identified_language) ==
    /\ identified_language.winner # None
    /\ IsCloseToOne(identified_language.winner_probability)

\* One turn of the for loop: assess the next key, return it or record it. An
\* exception of the assess function is caught nowhere: it ends _brute_force.
SeqAssess ==
    /\ pc = "seq"
    /\ seq_pos <= Len(key_stream)
    /\ LET key == key_stream[seq_pos]
           identified_language == assessment[key]
       IN  IF Raises(identified_language)
           THEN /\ seq_raised' = key
                /\ pc' = "mp"
                /\ UNCHANGED <<seq_results, seq_pos, seq_key, seq_early>>
           ELSE IF EarlyReturn(identified_language)
           THEN /\ seq_key' = key
                /\ seq_early' = TRUE
                /\ pc' = "mp"
                /\ UNCHANGED <<seq_results, seq_pos, seq_raised>>
           ELSE /\ seq_results' = Append(seq_results, <<key, identified_language>>)
                /\ seq_pos' = seq_pos + 1
                /\ UNCHANGED <<seq_key, seq_early, pc, seq_raised>>
    /\ UNCHANGED <<key_stream, assessment, mp_next, mp_running, mp_slots,
                   mp_order, mp_key, mp_raised>>

\* The stream is exhausted: best_key = get_best_result(results).
SeqSelect ==
    /\ pc = "seq"
    /\ seq_pos > Len(key_stream)
    /\ seq_key' = GetBestResult(seq_results)
    /\ pc' = "mp"
    /\ UNCHANGED <<key_stream, assessment, seq_pos, seq_results, seq_early,
                   mp_next, mp_running, mp_slots, mp_order, mp_key,
                   seq_raised, mp_raised>>

\* ----------------------------------------------------------- _brute_force_mp
Workers == 1..NumWorkers

\* A worker of the pool takes the next task of the map.
MpDispatch(w) ==
    /\ pc = "mp"
    /\ mp_running[w] = 0
    /\ mp_next <= Len(key_stream)
    /\ mp_running' = [mp_running EXCEPT ![w] = mp_next]
    /\ mp_next' = mp_next + 1
    /\ UNCHANGED <<key_stream, assessment, pc, seq_pos, seq_results, seq_key,
                   seq_early, mp_slots, mp_order, mp_key, seq_raised,
                   mp_raised>>

\* A worker finishes its assessment; the pool files the result under the
\* task's index. An exception in the worker is raised again by pool.map, out
\* of _brute_force_mp.
MpComplete(w) ==
    /\ pc = "mp"
    /\ mp_running[w] # 0
    /\ LET task == mp_running[w]
           key == key_stream[task]
       IN  IF Raises(assessment[key])
           THEN /\ mp_raised' = key
                /\ pc' = "done"
                /\ UNCHANGED <<mp_slots, mp_order>>
           ELSE /\ mp_slots' = [mp_slots EXCEPT
                                    ![task] = <<key, assessment[key]>>]
                /\ mp_order' = Append(mp_order, task)
                /\ UNCHANGED <<pc, mp_raised>>
    /\ mp_running' = [mp_running EXCEPT ![w] = 0]
    /\ UNCHANGED <<key_stream, assessment, seq_pos, seq_results, seq_key,
                   seq_early, mp_next, mp_key, seq_raised>>

\* pool.map handing the results back in the order workers delivered them.
PoolMapArrivalOrder(slots, order) == [n \in 1..Len(order) |-> slots[order[n]]]

\* What pool.map returns: the results in the order of its input.
PoolMap(slots, order) == [n \in 1..Len(order) |-> slots[n]]

\* Every task is done: results = pool.map(...); get_best_result(results).
MpSelect ==
    /\ pc = "mp"
    /\ Len(mp_order) = Len(key_stream)
    /\ mp_key' = GetBestResult(PoolMap(mp_slots, mp_order))
    /\ pc' = "done"
    /\ UNCHANGED <<key_stream, assessment, seq_pos, seq_results, seq_key,
                   seq_early, mp_next, mp_running, mp_slots, mp_order,
                   seq_raised, mp_raised>>

\* ------------------------------------------------------ affine key assessment
\* _assess_affine_key is not running.
AffineIdle ==
    /\ af_pc = "idle"
    /\ af_key = 0
    /\ af_deciphered = None
    /\ af_result = None

\* cryptomath.gcd: Euclid's loop.
RECURSIVE Gcd(_, _)
Gcd(a, b) == IF a # 0 THEN Gcd(b % a, a) ELSE b

\* cipher.affine.validate_key raises WrongAffineKey.
ValidateKeyRaises(key, charset_len) ==
    LET multiplying_key == key \div charset_len
        adding_key == key % charset_len
    IN  \/ multiplying_key < 0
        \/ multiplying_key = 0
        \/ adding_key < 0
        \/ adding_key > charset_len - 1
        \/ Gcd(multiplying_key, charset_len) # 1

\* _assess_affine_key without its except clause: WrongAffineKey gets out.
AssessAffineKeyNoExcept(key, charset_len, deciphered) ==
    IF ValidateKeyRaises(key, charset_len) THEN Raise ELSE deciphered

\* _assess_affine_key: a key validate_key rejects gets a result with no
\* winner and no candidates; any other key gets what _assess_key gives
\* (deciphered) for the text deciphered with it.
AssessAffineKey(key, charset_len, deciphered) ==
    IF ValidateKeyRaises(key, charset_len)
    THEN IdentifiedLanguage(None, None, <<>>)
    ELSE deciphered

\* What _assess_key may give for a key that passed validate_key: an
\* IdentifiedLanguage, or an exception of identify_language.
AffineOutcomes == AssessmentValues \cup {Raise}

\* One call of _assess_affine_key.
AffineAssess ==
    /\ af_pc = "call"
    /\ LET result == AssessAffineKey(af_key, charset_length, af_deciphered)
       IN  IF Raises(result)
           THEN /\ af_pc' = "raised"
                /\ UNCHANGED af_result
           ELSE /\ af_pc' = "returned"
                /\ af_result' = result
    /\ UNCHANGED <<af_key, af_deciphered>>

\* ------------------------------------------------------ language identifier
\* The identifier is not running.
LangIdle ==
    /\ lang_pc = "idle"
    /\ text = <<>>
    /\ words = {}
    /\ candidates = <<>>
    /\ identified = None

\* The characters of the texts: letters, a capital, a digit, a space.
TextAlphabet == {"a", "b", "A", "1", " "}

Texts == UNION {[1..n -> TextAlphabet] : n \in 0..MaxTextLen}

\* str.lower() on the alphabet.
Lower(char) ==
    CASE char = "A" -> "a" [] char = "B" -> "b" [] char = "C" -> "c"
      [] OTHER -> char

\* What the pattern [^\W\d_]+ matches: a letter.
IsLetter(char) == char \in {"a", "b", "c", "d", "x"}

\* re.findall(r'[^\W\d_]+', lowercase_text) as a set: the maximal runs of
\* letters, scanned from position pos with the run so far in run.
RECURSIVE FindAllWords(_, _, _)
FindAllWords(lowercase_text, pos, run) ==
    IF pos > Len(lowercase_text)
    THEN IF run = <<>> THEN {} ELSE {run}
    ELSE IF IsLetter(lowercase_text[pos])
         THEN FindAllWords(lowercase_text, pos + 1,
                           Append(run, lowercase_text[pos]))
         ELSE (IF run = <<>> THEN {} ELSE {run})
              \cup FindAllWords(lowercase_text, pos + 1, <<>>)

GetWordsFromText(t) ==
    FindAllWords([n \in 1..Len(t) |-> Lower(t[n])], 1, <<>>)

\* The dictionary stores identify_language runs against: none, and stores of
\* one, two and three languages whose words overlap.
DictionaryStores ==
    { <<>>,
      << {<<"a">>, <<"a", "b">>} >>,
      << {<<"a">>}, {<<"a">>, <<"b">>} >>,
      << {<<"b">>}, {<<"a">>, <<"b">>, <<"b", "a">>}, {<<"a">>} >> }

\* Dictionary.word_exists in the dictionary of one language.
WordExists(dictionary, word) == word \in dictionary

\* The float current_hits / total_words, in thousandths.
Presence(current_hits, total_words) == (current_hits * Scale) \div total_words

\* _get_winner with >= for >: the last language of the highest frequency.
RECURSIVE GetWinnerLastFrom(_, _, _, _)
GetWinnerLastFrom(cands, idx, current_winner, current_highest_frequency) ==
    IF idx > Len(cands) THEN current_winner
    ELSE IF cands[idx] >= current_highest_frequency
         THEN GetWinnerLastFrom(cands, idx + 1, idx, cands[idx])
         ELSE GetWinnerLastFrom(cands, idx + 1, current_winner,
                                current_highest_frequency)

GetWinnerLast(cands) == GetWinnerLastFrom(cands, 1, None, 0)

RECURSIVE GetWinnerFrom(_, _, _, _)
GetWinnerFrom(cands, idx, current_winner, current_highest_frequency) ==
    IF idx > Len(cands) THEN current_winner
    ELSE IF cands[idx] > current_highest_frequency
         THEN GetWinnerFrom(cands, idx + 1, idx, cands[idx])
         ELSE GetWinnerFrom(cands, idx + 1, current_winner,
                            current_highest_frequency)

\* _get_winner: candidates.items() runs in language enumeration order.
GetWinner(cands) == GetWinnerFrom(cands, 1, None, 0)

\* identify_language: words = get_words_from_text(text).
LangGetWords ==
    /\ lang_pc = "words"
    /\ words' = GetWordsFromText(text)
    /\ lang_pc' = "candidates"
    /\ UNCHANGED <<text, dictionaries, candidates, identified>>

\* One turn of the loop of _get_candidates_frequency: the presence of the
\* words in the next language. get_words_presence divides by len(words):
\* with no word the division raises ZeroDivisionError, which nothing catches.
LangCandidate ==
    /\ lang_pc = "candidates"
    /\ Len(candidates) < Len(dictionaries)
    /\ LET dictionary == dictionaries[Len(candidates) + 1]
           total_words == Cardinality(words)
           current_hits == Cardinality({w \in words : WordExists(dictionary, w)})
       IN  IF total_words = 0
           THEN /\ lang_pc' = "raised"
                /\ UNCHANGED candidates
           ELSE /\ candidates' = Append(candidates,
                                        Presence(current_hits, total_words))
                /\ UNCHANGED lang_pc
    /\ UNCHANGED <<text, dictionaries, words, identified>>

\* winner = _get_winner(candidates) and the IdentifiedLanguage returned.
LangWinner ==
    /\ lang_pc = "candidates"
    /\ Len(candidates) = Len(dictionaries)
    /\ LET winner == GetWinner(candidates)
       IN  identified' = IF winner # None
                         THEN IdentifiedLanguage(winner, candidates[winner],
                                                 candidates)
                         ELSE IdentifiedLanguage(None, None, candidates)
    /\ lang_pc' = "returned"
    /\ UNCHANGED <<text, dictionaries, words, candidates>>

\* ---------------------------------------------- substitution mapping solver
\* The charset of the cipher; a key is a string of its letters.
Charset == <<"a", "b", "c">>

CharsetLetters == {Charset[n] : n \in DOMAIN Charset}

\* charset.index(char)
CharsetIndex(char) == CHOOSE n \in DOMAIN Charset : Charset[n] = char

\* check_substitution_key: the key raises WrongSubstitutionKey.
WrongSubstitutionKey(key) ==
    \/ Len(key) # Len(Charset)
    \/ Len(key) # Cardinality({key[n] : n \in DOMAIN key})

\* cipher() on a lowercase word.
Cipher(word, key) ==
    [n \in 1..Len(word) |->
        IF word[n] \in CharsetLetters THEN key[CharsetIndex(word[n])]
        ELSE word[n]]

\* key.index(char): the first position of char.
KeyIndex(key, char) ==
    CHOOSE n \in DOMAIN key :
        key[n] = char /\ \A k \in DOMAIN key : key[k] = char => n <= k

\* decipher() on a lowercase word, once the key passed the check.
Decipher(word, key) ==
    [n \in 1..Len(word) |->
        IF \E k \in DOMAIN key : key[k] = word[n]
        THEN Charset[KeyIndex(key, word[n])]
        ELSE word[n]]

\* get_word_pattern with each letter numbered by the place of its first
\* appearance in the word instead of its rank.
GetWordPatternPlaces(word) ==
    [n \in 1..Len(word) |->
        (CHOOSE i \in 1..n :
            word[i] = word[n] /\ \A j \in 1..n : word[j] = word[n] => i <= j) - 1]

\* get_word_pattern: each letter becomes the rank of its first appearance
\* among the distinct letters of the word (the list the code joins with ".").
GetWordPattern(word) ==
    [n \in 1..Len(word) |->
        LET first == CHOOSE i \in 1..n :
                        word[i] = word[n] /\ \A j \in 1..n : word[j] = word[n] => i <= j
        IN  Cardinality({word[j] : j \in 1..(first - 1)})]

\* ".".join(map(str, pattern)): the string get_word_pattern returns.
RECURSIVE JoinPattern(_)
JoinPattern(pattern) ==
    IF pattern = <<>> THEN ""
    ELSE IF Len(pattern) = 1 THEN ToString(pattern[1])
    ELSE ToString(Head(pattern)) \o "." \o JoinPattern(Tail(pattern))

\* pattern = get_word_pattern(word)
WordPatternCall ==
    /\ call_pc = "call"
    /\ call_fn = "get_word_pattern"
    /\ call_ret' = JoinPattern(GetWordPattern(call_args))
    /\ call_pc' = "returned"
    /\ UNCHANGED <<call_fn, call_args, connection>>

\* Dictionary.get_words_with_pattern
GetWordsWithPattern(dictionary, pattern) ==
    {word \in dictionary : GetWordPattern(word) = pattern}

\* Mapping.__init__: every cipherletter with no candidate.
Mapping == [cipherletter \in CharsetLetters |-> {}]

\* _get_word_mapping: the candidates of each cipherletter of a ciphered word,
\* from the dictionary words of the same pattern.
GetWordMapping(ciphered_word, dictionary) ==
    LET word_candidates ==
            GetWordsWithPattern(dictionary, GetWordPattern(ciphered_word))
    IN  [cipherletter \in CharsetLetters |->
            {word_candidate[index] :
                word_candidate \in word_candidates,
                index \in {k \in 1..Len(ciphered_word) :
                                ciphered_word[k] = cipherletter}}]

\* reduce_mapping with |= for &=: the candidates of a word are added.
ReduceCandidatesUnion(own, evidence) ==
    IF Cardinality(own) > 1 /\ evidence # {} THEN own \cup evidence
    ELSE IF own = {} /\ evidence # {} THEN evidence
    ELSE own

\* reduce_mapping on one cipherletter: own is self[cipherletter], evidence is
\* word_mapping[cipherletter].
ReduceCandidates(own, evidence) ==
    IF Cardinality(own) > 1 /\ evidence # {} THEN own \cap evidence
    ELSE IF own = {} /\ evidence # {} THEN evidence
    ELSE own

\* Mapping.reduce_mapping
ReduceMapping(self, word_mapping) ==
    [cipherletter \in CharsetLetters |->
        ReduceCandidates(self[cipherletter], word_mapping[cipherletter])]

\* clean_redundancies that checks every set, the sets of one candidate too.
CleanRedundanciesEverySet(self) ==
    LET candidates_to_remove ==
            {c \in CharsetLetters : \E k \in CharsetLetters : self[k] = {c}}
    IN  [cipherletter \in CharsetLetters |->
            self[cipherletter] \ candidates_to_remove]

\* Mapping.clean_redundancies: candidates_to_remove and sets_to_check are both
\* taken once, from the mapping as it is on entry; every set of sets_to_check
\* then loses every candidate of candidates_to_remove it holds.
CleanRedundancies(self) ==
    LET candidates_to_remove ==
            {c \in CharsetLetters : \E k \in CharsetLetters : self[k] = {c}}
    IN  [cipherletter \in CharsetLetters |->
            IF Cardinality(self[cipherletter]) > 1
            THEN self[cipherletter] \ candidates_to_remove
            ELSE self[cipherletter]]

\* The iteration of a candidate set, taken in charset order.
CandidatesList(cands) == SelectSeq(Charset, LAMBDA c : c \in cands)

\* The inner loops of get_possible_mappings that stop after the first
\* candidate of the set.
ExpandCandidatesFirst(char, candidates_list, pos, partial_mappings) ==
    [n \in 1..Len(partial_mappings) |->
        [partial_mappings[n] EXCEPT ![char] = {candidates_list[1]}]]

\* The inner loops of get_possible_mappings: for each candidate from position
\* pos of the list, each partial mapping with char set to that candidate.
RECURSIVE ExpandCandidates(_, _, _, _)
ExpandCandidates(char, candidates_list, pos, partial_mappings) ==
    IF pos > Len(candidates_list) THEN <<>>
    ELSE [n \in 1..Len(partial_mappings) |->
             [partial_mappings[n] EXCEPT ![char] = {candidates_list[pos]}]]
         \o ExpandCandidates(char, candidates_list, pos + 1, partial_mappings)

\* get_possible_mappings on the first n cipherletters: popitem takes the last
\* one, the recursion the rest.
RECURSIVE GetPossibleMappingsFrom(_, _)
GetPossibleMappingsFrom(self, n) ==
    IF n = 0 THEN <<Mapping>>
    ELSE LET char == Charset[n]
             partial_mappings == GetPossibleMappingsFrom(self, n - 1)
         IN  IF self[char] # {}
             THEN ExpandCandidates(char, CandidatesList(self[char]), 1,
                                   partial_mappings)
             ELSE partial_mappings

\* Mapping.get_possible_mappings
GetPossibleMappings(self) == GetPossibleMappingsFrom(self, Len(Charset))

\* [v for v in value_set][0]: the candidate generate_key_string takes from a
\* set; the mappings it is given here hold one candidate at most per letter.
FirstCandidate(value_set) == CHOOSE v \in value_set : TRUE

\* generate_key_string read the other way round: at the place of each
\* cipherletter its candidate, or the cipherletter itself.
GenerateKeyStringOfCandidates(self) ==
    [n \in 1..Len(Charset) |->
        IF self[Charset[n]] = {} THEN Charset[n]
        ELSE FirstCandidate(self[Charset[n]])]

\* Mapping.generate_key_string: for each clear letter the first cipherletter
\* whose candidate it is, or the clear letter itself.
GenerateKeyString(self) ==
    [n \in 1..Len(Charset) |->
        LET clear_char == Charset[n]
            found == {k \in DOMAIN Charset :
                        /\ self[Charset[k]] # {}
                        /\ FirstCandidate(self[Charset[k]]) = clear_char}
        IN  IF found = {} THEN clear_char
            ELSE Charset[CHOOSE k \in found : \A j \in found : k <= j]]

\* What stands for the ZeroDivisionError of get_words_presence on no words.
ZeroDivisionError == -2

\* _assess_substitution_key without the check of the key.
AssessSubstitutionKeyUnchecked(c_words, key, dictionary) ==
    LET recovered == {Decipher(word, key) : word \in c_words}
    IN  IF recovered = {} THEN ZeroDivisionError
        ELSE Presence(Cardinality({w \in recovered : WordExists(dictionary, w)}),
                      Cardinality(recovered))

\* _assess_substitution_key: a key that fails the check scores 0; any other
\* scores the presence of the deciphered words in the language, a division
\* that raises when the text has no word.
AssessSubstitutionKey(c_words, key, dictionary) ==
    IF WrongSubstitutionKey(key) THEN 0
    ELSE LET recovered == {Decipher(word, key) : word \in c_words}
         IN  IF recovered = {} THEN ZeroDivisionError
             ELSE Presence(Cardinality({w \in recovered :
                                            WordExists(dictionary, w)}),
                           Cardinality(recovered))

\* keys_found.update(language_keys) alone, without the loop that drops the
\* keys of lower probability first.
UpdateKeysFound(found, lang_keys) ==
    [key \in DOMAIN found \cup DOMAIN lang_keys |->
        IF key \in DOMAIN lang_keys THEN lang_keys[key] ELSE found[key]]

\* The loop of hack_substitution that folds the keys of a language into
\* keys_found: a key of both keeps the higher probability.
FoldLanguageKeys(found, lang_keys) ==
    LET kept == {key \in DOMAIN lang_keys :
                    ~(key \in DOMAIN found /\ lang_keys[key] < found[key])}
    IN  [key \in DOMAIN found \cup kept |->
            IF key \in kept THEN lang_keys[key] ELSE found[key]]

\* _get_best_key: what it may return. The first key of the highest
\* probability wins; which one is first is the insertion order of the dict,
\* that follows the iteration order of sets of str and so the hash seed.
BestKeys(found) ==
    IF \A key \in DOMAIN found : found[key] = 0
    THEN {[key |-> <<>>, probability |-> 0]}
    ELSE {[key |-> key, probability |-> found[key]] :
            key \in {k \in DOMAIN found :
                        \A other \in DOMAIN found : found[other] <= found[k]}}

\* The solver is not running.
SubIdle ==
    /\ sub_pc = "idle"
    /\ cipher_key = <<>>
    /\ ciphered_words = {}
    /\ language = 0
    /\ pending_words = {}
    /\ mapping = Mapping
    /\ prev_mapping = Mapping
    /\ last_op = "new"
    /\ possible_mappings = <<>>
    /\ assess_pos = 1
    /\ language_keys = <<>>
    /\ keys_found = <<>>
    /\ hacked = None
    /\ first_assigned = Mapping

\* The word mappings reduce_mapping may be given: any candidates, up to
\* MaxCandidates of them per cipherletter.
WordMappings ==
    [CharsetLetters ->
        {cands \in SUBSET CharsetLetters : Cardinality(cands) <= MaxCandidates}]

\* mapping.reduce_mapping(word_mapping), on any word mapping.
MapReduce ==
    /\ sub_pc = "mapping"
    /\ \E word_mapping \in WordMappings :
            mapping' = ReduceMapping(mapping, word_mapping)
    /\ prev_mapping' = mapping
    /\ last_op' = "reduce"
    /\ UNCHANGED <<sub_pc, cipher_key, ciphered_words, language, pending_words,
                   possible_mappings, assess_pos, language_keys, keys_found,
                   hacked, first_assigned>>

\* language_mapping.reduce_mapping(word_mapping) in the loop of
\* _generate_language_mapping, on any word mapping; first_assigned keeps, for
\* every cipherletter, the first set the calls assigned it.
LanguageMappingReduce ==
    /\ sub_pc = "mapping"
    /\ \E word_mapping \in WordMappings :
            mapping' = ReduceMapping(mapping, word_mapping)
    /\ first_assigned' =
            [cipherletter \in CharsetLetters |->
                IF first_assigned[cipherletter] = {}
                THEN mapping'[cipherletter]
                ELSE first_assigned[cipherletter]]
    /\ last_op' = "reduce"
    /\ UNCHANGED <<sub_pc, cipher_key, ciphered_words, language, pending_words,
                   prev_mapping, possible_mappings, assess_pos, language_keys,
                   keys_found, hacked>>

\* mapping.clean_redundancies()
MapClean ==
    /\ sub_pc = "mapping"
    /\ mapping' = CleanRedundancies(mapping)
    /\ prev_mapping' = mapping
    /\ last_op' = "clean"
    /\ UNCHANGED <<sub_pc, cipher_key, ciphered_words, language, pending_words,
                   possible_mappings, assess_pos, language_keys, keys_found,
                   hacked,
                   first_assigned>>

\* possible_mappings = mapping.get_possible_mappings(), on any mapping the
\* calls before have left; the mapping itself is copied, not changed.
MapExpand ==
    /\ sub_pc = "mapping"
    /\ possible_mappings' = GetPossibleMappings(mapping)
    /\ prev_mapping' = mapping
    /\ last_op' = "expand"
    /\ sub_pc' = "expanded"
    /\ UNCHANGED <<cipher_key, ciphered_words, language, pending_words,
                   mapping, assess_pos, language_keys, keys_found, hacked,
                   first_assigned>>

\* The words a plain text is made of: the words of the stores below and one
\* that is in none of them.
PlainWords ==
    { <<"a", "b">>, <<"b", "a">>, <<"c", "a", "b">>, <<"a", "b", "c">>,
      <<"b", "b">>, <<"c">>, <<"c", "c">>, <<"c", "a">> }

\* The dictionary stores hack_substitution runs against: one language with
\* words of the same pattern, and two languages in either order.
SubstitutionStores ==
    { << {<<"a", "b">>, <<"b", "a">>, <<"c", "a", "b">>, <<"a", "b", "c">>,
          <<"b", "b">>} >>,
      << {<<"a", "b">>, <<"c">>},
         {<<"b", "a">>, <<"c", "a", "b">>, <<"c", "c">>} >>,
      << {<<"b", "a">>, <<"c", "a", "b">>, <<"c", "c">>},
         {<<"a", "b">>, <<"c">>} >> }

\* The keys of the cipher: the permutations of the charset.
SubstitutionKeys ==
    {key \in [1..Len(Charset) -> CharsetLetters] : ~WrongSubstitutionKey(key)}

\* One turn of the loop of _generate_language_mapping: the word mapping of a
\* ciphered word reduces the language mapping. The words are a set, so they
\* come in any order.
SubReduce ==
    /\ sub_pc = "fold"
    /\ \E ciphered_word \in pending_words :
        /\ mapping' = ReduceMapping(mapping,
                        GetWordMapping(ciphered_word, dictionaries[language]))
        /\ pending_words' = pending_words \ {ciphered_word}
    /\ prev_mapping' = mapping
    /\ last_op' = "reduce"
    /\ UNCHANGED <<sub_pc, cipher_key, ciphered_words, language,
                   possible_mappings, assess_pos, language_keys, keys_found,
                   hacked,
                   first_assigned>>

\* _get_possible_mappings: global_mapping.clean_redundancies()
SubClean ==
    /\ sub_pc = "fold"
    /\ pending_words = {}
    /\ mapping' = CleanRedundancies(mapping)
    /\ prev_mapping' = mapping
    /\ last_op' = "clean"
    /\ sub_pc' = "expand"
    /\ UNCHANGED <<cipher_key, ciphered_words, language, pending_words,
                   possible_mappings, assess_pos, language_keys, keys_found,
                   hacked,
                   first_assigned>>

\* _get_possible_mappings: global_mapping.get_possible_mappings()
SubExpand ==
    /\ sub_pc = "expand"
    /\ possible_mappings' = GetPossibleMappings(mapping)
    /\ assess_pos' = 1
    /\ language_keys' = <<>>
    /\ sub_pc' = "assess"
    /\ UNCHANGED <<cipher_key, ciphered_words, language, pending_words,
                   mapping, prev_mapping, last_op, keys_found, hacked,
                   first_assigned>>

\* One turn of the loop of _assess_candidate_keys: the key of the next
\* possible mapping and its probability go into the dict. ZeroDivisionError
\* is caught nowhere: it ends hack_substitution.
SubAssess ==
    /\ sub_pc = "assess"
    /\ assess_pos <= Len(possible_mappings)
    /\ LET key == GenerateKeyString(possible_mappings[assess_pos])
           probability == AssessSubstitutionKey(ciphered_words, key,
                                                dictionaries[language])
       IN  IF probability = ZeroDivisionError
           THEN /\ sub_pc' = "raised"
                /\ UNCHANGED <<language_keys, assess_pos>>
           ELSE /\ language_keys' = [k \in DOMAIN language_keys \cup {key} |->
                                        IF k = key THEN probability
                                        ELSE language_keys[k]]
                /\ assess_pos' = assess_pos + 1
                /\ UNCHANGED sub_pc
    /\ UNCHANGED <<cipher_key, ciphered_words, language, pending_words,
                   mapping, prev_mapping, last_op, possible_mappings,
                   keys_found, hacked,
                   first_assigned>>

\* The end of a turn of the loop of hack_substitution: the keys of the
\* language are folded into keys_found, and the next language starts with a
\* new Mapping.
SubMerge ==
    /\ sub_pc = "assess"
    /\ assess_pos > Len(possible_mappings)
    /\ keys_found' = FoldLanguageKeys(keys_found, language_keys)
    /\ IF language < Len(dictionaries)
       THEN /\ language' = language + 1
            /\ pending_words' = ciphered_words
            /\ mapping' = Mapping
            /\ prev_mapping' = Mapping
            /\ last_op' = "new"
            /\ sub_pc' = "fold"
       ELSE /\ sub_pc' = "best"
            /\ UNCHANGED <<language, pending_words, mapping, prev_mapping,
                           last_op>>
    /\ UNCHANGED <<cipher_key, ciphered_words, possible_mappings, assess_pos,
                   language_keys, hacked,
                   first_assigned>>

\* best_key, best_probability = _get_best_key(keys_found)
SubBest ==
    /\ sub_pc = "best"
    /\ hacked' \in BestKeys(keys_found)
    /\ sub_pc' = "done"
    /\ UNCHANGED <<cipher_key, ciphered_words, language, pending_words,
                   mapping, prev_mapping, last_op, possible_mappings,
                   assess_pos, language_keys, keys_found, first_assigned>>

\* ------------------------------------------------------ hack_substitution_mp
\* The orders in which a process may iterate the set ciphered_words.
WordOrders(c_words) ==
    {word_list \in [1..Cardinality(c_words) -> c_words] :
        \A n, m \in DOMAIN word_list : n # m => word_list[n] # word_list[m]}

\* _generate_language_mapping, the words taken in the order of word_list.
RECURSIVE GenerateLanguageMapping(_, _)
GenerateLanguageMapping(word_list, dictionary) ==
    IF word_list = <<>> THEN Mapping
    ELSE ReduceMapping(
             GenerateLanguageMapping(SubSeq(word_list, 1, Len(word_list) - 1),
                                     dictionary),
             GetWordMapping(word_list[Len(word_list)], dictionary))

\* _get_possible_mappings as a worker of the pool runs it.
GetPossibleMappingsTask(word_list, dictionary) ==
    GetPossibleMappings(
        CleanRedundancies(GenerateLanguageMapping(word_list, dictionary)))

\* The second starmap of hack_substitution_mp and the loop after it: one
\* call of _assess_candidate_keys per possible mapping, the languages and
\* their mappings in the order of the lists, each dict of one key folded
\* into keys_found. The result is keys_found after the first n languages.
RECURSIVE FoldMappingKeys(_, _, _, _)
FoldMappingKeys(mappings_list, c_words, store, n) ==
    LET RECURSIVE FoldMappings(_)
        FoldMappings(m) ==
            IF m = 0 THEN FoldMappingKeys(mappings_list, c_words, store, n - 1)
            ELSE LET key == GenerateKeyString(mappings_list[n][m])
                     probability == AssessSubstitutionKey(c_words, key, store[n])
                 IN  FoldLanguageKeys(FoldMappings(m - 1),
                                      [k \in {key} |-> probability])
    IN  IF n = 0 THEN <<>> ELSE FoldMappings(Len(mappings_list[n]))

\* pool.starmap(_get_possible_mappings, nargs): a worker ends the task of a
\* language, whichever is still open, having iterated the words in its own
\* order; the result goes to the place of the language in the list.
MpGetPossibleMappings ==
    /\ sub_pc = "done"
    /\ call_pc = "call"
    /\ call_fn = "hack_substitution_mp"
    /\ \E n \in DOMAIN call_args :
        /\ call_args[n] = <<>>
        /\ \E word_list \in WordOrders(ciphered_words) :
            call_args' = [call_args EXCEPT
                             ![n] = GetPossibleMappingsTask(word_list,
                                                            dictionaries[n])]
    /\ UNCHANGED <<call_pc, call_fn, call_ret, connection>>

\* The rest of hack_substitution_mp once the first starmap has returned: the
\* keys are assessed and folded, and _get_best_key picks the result.
MpGetBestKey ==
    /\ sub_pc = "done"
    /\ call_pc = "call"
    /\ call_fn = "hack_substitution_mp"
    /\ \A n \in DOMAIN call_args : call_args[n] # <<>>
    /\ call_ret' \in BestKeys(FoldMappingKeys(call_args, ciphered_words,
                                              dictionaries, Len(call_args)))
    /\ call_pc' = "returned"
    /\ UNCHANGED <<call_fn, call_args, connection>>

\* ------------------------------------------------- attack/frequency: histogram
\* The characters of the texts given to the functions of attack/frequency:
\* the letters of the charset, a letter that is not in the charset, a
\* capital, a space and a digit.
FrequencyAlphabet == {"a", "b", "c", "x", "A", " ", "1"}

FrequencyTexts == UNION {[1..n -> FrequencyAlphabet] : n \in 0..MaxTextLen}

\* The order of str on the letters (their code points).
CodePoint(char) ==
    CASE char = "a" -> 97 [] char = "b" -> 98 [] char = "c" -> 99
      [] char = "d" -> 100 [] char = "x" -> 120 [] OTHER -> 0

\* re.findall(r'[^\W\d_]+', lowercase_text) as a list: the maximal runs of
\* letters in the order they come, scanned from pos with the run so far.
RECURSIVE FindAllWordsList(_, _, _)
FindAllWordsList(lowercase_text, pos, run) ==
    IF pos > Len(lowercase_text)
    THEN IF run = <<>> THEN <<>> ELSE <<run>>
    ELSE IF IsLetter(lowercase_text[pos])
         THEN FindAllWordsList(lowercase_text, pos + 1,
                               Append(run, lowercase_text[pos]))
         ELSE (IF run = <<>> THEN <<>> ELSE <<run>>)
              \o FindAllWordsList(lowercase_text, pos + 1, <<>>)

\* normalize_text: the words of the text, lowercase, in the order of the text.
NormalizeText(t) ==
    FindAllWordsList([n \in 1..Len(t) |-> Lower(t[n])], 1, <<>>)

\* "".join(normalized_words)
RECURSIVE JoinWords(_)
JoinWords(word_list) ==
    IF word_list = <<>> THEN <<>>
    ELSE Head(word_list) \o JoinWords(Tail(word_list))

\* Counter(letter_sequence): letter -> occurrences, for the letters present.
Counter(letter_sequence) ==
    [letter \in {letter_sequence[n] : n \in DOMAIN letter_sequence} |->
        Cardinality({n \in DOMAIN letter_sequence : letter_sequence[n] = letter})]

\* LetterHistogram._create_ordered_dict: the letters counted, then the
\* letters of the charset that are not in the text with 0, ordered by count
\* from the highest, letters of one count in the order of str. The dict is
\* given as its keys in order and the value of each key.
CreateOrderedDict(letter_counter) ==
    LET all_keys == DOMAIN letter_counter \cup CharsetLetters
        value == [key \in all_keys |->
                    IF key \in DOMAIN letter_counter THEN letter_counter[key]
                    ELSE 0]
        Before(one, other) ==
            \/ value[one] > value[other]
            \/ value[one] = value[other] /\ CodePoint(one) < CodePoint(other)
        keys_in_order ==
            [n \in 1..Cardinality(all_keys) |->
                CHOOSE key \in all_keys :
                    Cardinality({k \in all_keys : Before(k, key)}) = n - 1]
    IN  [keys |-> keys_in_order, value |-> value]

\* a_list[:width], for a width that is not negative.
SliceFirst(a_list, width) ==
    SubSeq(a_list, 1, IF width < Len(a_list) THEN width ELSE Len(a_list))

\* a_list[-width:], for a width that is not negative: -0 is 0, so the slice
\* for width 0 starts at the first element.
SliceLast(a_list, width) ==
    IF width = 0 \/ width >= Len(a_list) THEN a_list
    ELSE SubSeq(a_list, Len(a_list) - width + 1, Len(a_list))

\* LetterHistogram.set_matching_width
SetMatchingWidth(self, width) ==
    [total_letters |-> self.total_letters,
     ordered_dict |-> self.ordered_dict,
     top_matching |-> SliceFirst(self.ordered_dict.keys, width),
     bottom_matching |-> SliceLast(self.ordered_dict.keys, width)]

\* matching_width: int = 6, a quarter of the default charset of 26 letters;
\* for the charset of three letters the width is 1, so that the top and the
\* bottom of a histogram are not the whole of it.
DefaultMatchingWidth == 1

\* LetterHistogram.__init__(text): the second __init__ of the class, the one
\* in force.
LetterHistogram(t) ==
    LET letter_sequence == JoinWords(NormalizeText(t))
        letter_counter == Counter(letter_sequence)
    IN  SetMatchingWidth([total_letters |-> Len(letter_sequence),
                          ordered_dict |-> CreateOrderedDict(letter_counter)],
                         DefaultMatchingWidth)

\* LetterHistogram.frequency(key), in thousandths; the division raises
\* ZeroDivisionError on a text without letters.
Frequency(histogram, key) ==
    IF histogram.total_letters = 0 THEN ZeroDivisionError
    ELSE (histogram.ordered_dict.value[key] * Scale) \div histogram.total_letters

\* histogram = LetterHistogram(text)
HistogramCall ==
    /\ call_pc = "call"
    /\ call_fn = "LetterHistogram"
    /\ call_ret' = LetterHistogram(call_args)
    /\ call_pc' = "returned"
    /\ UNCHANGED <<call_fn, call_args, connection>>

\* histogram.set_matching_width(width) on the histogram of a text
SetMatchingWidthCall ==
    /\ call_pc = "returned"
    /\ call_fn = "LetterHistogram"
    /\ \E width \in 0..MaxWidth :
        /\ call_args' = <<call_args, width>>
        /\ call_ret' = SetMatchingWidth(call_ret, width)
    /\ call_fn' = "set_matching_width"
    /\ UNCHANGED <<call_pc, connection>>

\* --------------------------------------- attack/frequency: repeated sequences
\* char_string.find(sequence_to_find, index), positions counted from 0: the
\* first position from index on where the sequence stands, -1 when none.
Find(char_string, sequence_to_find, index) ==
    LET found == {n \in index..(Len(char_string) - Len(sequence_to_find)) :
                     SubSeq(char_string, n + 1, n + Len(sequence_to_find))
                         = sequence_to_find}
    IN  IF found = {} THEN -1
        ELSE CHOOSE n \in found : \A k \in found : n <= k

\* The while loop of _find_adjacent_separations for one sequence: the
\* separations found from index on, each search starting length after the
\* place of the last one found.
RECURSIVE AdjacentSeparations(_, _, _, _, _, _)
AdjacentSeparations(char_string, sequence_to_find, index, previous_index, char_string_length, length) ==
    IF index >= char_string_length THEN <<>>
    ELSE LET found == Find(char_string, sequence_to_find, index)
         IN  IF found = -1 THEN <<>>
             ELSE <<found - previous_index>>
                  \o AdjacentSeparations(char_string, sequence_to_find,
                                         found + length, found,
                                         char_string_length, length)

\* The for loop of _find_adjacent_separations from position i on:
\* char_string_length is the length of the text as given, the window at the
\* end of the string is shorter than length, and a sequence that already has
\* an entry is not searched again.
RECURSIVE FindAdjacentSeparations(_, _, _, _, _)
FindAdjacentSeparations(char_string, char_string_length, length, i, sequences) ==
    IF i >= Len(char_string) THEN sequences
    ELSE LET last == IF i + length < Len(char_string) THEN i + length
                     ELSE Len(char_string)
             sequence_to_find == SubSeq(char_string, i + 1, last)
             separations == AdjacentSeparations(char_string, sequence_to_find,
                                                i + length, i,
                                                char_string_length, length)
         IN  FindAdjacentSeparations(char_string, char_string_length, length, i + 1,
                 IF sequence_to_find \in DOMAIN sequences \/ separations = <<>>
                 THEN sequences
                 ELSE [key \in DOMAIN sequences \cup {sequence_to_find} |->
                          IF key = sequence_to_find THEN separations
                          ELSE sequences[key]])

\* sum(spaces[first:last]), positions counted from 1, both ends included.
RECURSIVE SumSpaces(_, _, _)
SumSpaces(spaces, first, last) ==
    IF first > last THEN 0
    ELSE spaces[first] + SumSpaces(spaces, first + 1, last)

\* _find_not_adjacent_separations for one list: the list followed, for every
\* space and every longer run of spaces that starts with it, the longest run
\* first, by the sum of the run.
NotAdjacentSeparations(spaces) ==
    LET sequence_length == Len(spaces)
        RECURSIVE NotAdjacentFrom(_, _)
        NotAdjacentFrom(i, n) ==
            IF i > sequence_length THEN <<>>
            ELSE IF n <= i THEN NotAdjacentFrom(i + 1, sequence_length)
            ELSE <<SumSpaces(spaces, i, n)>> \o NotAdjacentFrom(i, n - 1)
    IN  IF sequence_length > 1
        THEN spaces \o NotAdjacentFrom(1, sequence_length)
        ELSE spaces

\* find_repeated_sequences(text, length)
FindRepeatedSequences(t, length) ==
    LET sequences == FindAdjacentSeparations(JoinWords(NormalizeText(t)),
                                             Len(t), length, 0, <<>>)
    IN  [key \in DOMAIN sequences |-> NotAdjacentSeparations(sequences[key])]

\* get_substrings(ciphertext, step): ciphertext[i::step] for i in range(step).
GetSubstrings(ciphertext, step) ==
    [n \in 1..step |->
        LET taken == {k \in DOMAIN ciphertext : (k - 1) % step = n - 1}
        IN  [k \in 1..Cardinality(taken) |-> ciphertext[n + (k - 1) * step]]]

\* The texts of find_repeated_sequences and of get_substrings.
RepeatTexts == UNION {[1..n -> {"a", "b", " "}] : n \in 0..MaxRepeatLen}

\* sequences = find_repeated_sequences(text, length), or
\* substrings = get_substrings(ciphertext, step)
RepeatCall ==
    /\ call_pc = "call"
    /\ call_fn \in {"find_repeated_sequences", "get_substrings"}
    /\ call_ret' = IF call_fn = "find_repeated_sequences"
                   THEN FindRepeatedSequences(call_args[1], call_args[2])
                   ELSE GetSubstrings(call_args[1], call_args[2])
    /\ call_pc' = "returned"
    /\ UNCHANGED <<call_fn, call_args, connection>>

\* ------------------------------------------------------- cipher/cryptomath
\* The loop of find_mod_inverse (the extended Euclidean algorithm): the value
\* of u1 when v3 reaches 0.
RECURSIVE ExtendedEuclid(_, _, _, _, _, _)
ExtendedEuclid(u1, u2, u3, v1, v2, v3) ==
    IF v3 = 0 THEN u1
    ELSE LET q == u3 \div v3
         IN  ExtendedEuclid(v1, v2, v3, u1 - q * v1, u2 - q * v2, u3 - q * v3)

\* find_mod_inverse with the result left as the loop gives it.
FindModInverseNoMod(a, m) ==
    IF Gcd(a, m) # 1 THEN None
    ELSE ExtendedEuclid(1, 0, a, 0, 1, m)

\* find_mod_inverse(a, m)
FindModInverse(a, m) ==
    IF Gcd(a, m) # 1 THEN None
    ELSE ExtendedEuclid(1, 0, a, 0, 1, m) % m

\* x = find_mod_inverse(a, m)
ModInverseCall ==
    /\ call_pc = "call"
    /\ call_fn = "find_mod_inverse"
    /\ call_ret' = FindModInverse(call_args[1], call_args[2])
    /\ call_pc' = "returned"
    /\ UNCHANGED <<call_fn, call_args, connection>>

\* ------------------------------------------- attack/vigenere: key lengths
\* find_factors without the number itself.
FindProperFactors(number) ==
    LET factors == {candidate \in 2..(number - 1) : number % candidate = 0}
    IN  [n \in 1..Cardinality(factors) |->
            CHOOSE candidate \in factors :
                Cardinality({c \in factors : c < candidate}) = n - 1]

\* find_factors: the candidates from 2 to the number that divide it, in
\* ascending order.
FindFactors(number) ==
    LET factors == {candidate \in 2..number : number % candidate = 0}
    IN  [n \in 1..Cardinality(factors) |->
            CHOOSE candidate \in factors :
                Cardinality({c \in factors : c < candidate}) = n - 1]

\* count_factors(*factor_lists): a Counter of the factors over the lists,
\* its keys in the order they come first. The dict is given as its keys in
\* order and the value of each key.
CountFactors(factor_lists) ==
    LET all_factors == JoinWords(factor_lists)
        factors == {all_factors[n] : n \in DOMAIN all_factors}
        First(factor) ==
            CHOOSE n \in DOMAIN all_factors :
                /\ all_factors[n] = factor
                /\ \A k \in 1..(n - 1) : all_factors[k] # factor
    IN  [keys |-> [n \in 1..Cardinality(factors) |->
                      CHOOSE factor \in factors :
                          Cardinality({f \in factors :
                                          First(f) < First(factor)}) = n - 1],
         value |-> [factor \in factors |->
                      Cardinality({n \in DOMAIN all_factors :
                                      all_factors[n] = factor})]]

\* length: int = 3 of find_repeated_sequences
DefaultLength == 3

\* _get_likely_key_lengths: the factors of every separation of every repeated
\* sequence, the sequences in the order they were found, counted; then the
\* keys of most_common(), from the highest count and keys of one count in
\* the order of the Counter, that are not over maximum_key_length.
GetLikelyKeyLengths(ciphered_text, maximum_key_length) ==
    LET sequences == FindRepeatedSequences(ciphered_text, DefaultLength)
        char_string == JoinWords(NormalizeText(ciphered_text))
        Found(key) ==
            CHOOSE i \in 0..(Len(char_string) - 1) :
                /\ Len(key) <= Len(char_string) - i
                /\ SubSeq(char_string, i + 1, i + Len(key)) = key
                /\ \A k \in 0..(i - 1) :
                    \/ Len(key) > Len(char_string) - k
                    \/ SubSeq(char_string, k + 1, k + Len(key)) # key
        keys_in_order ==
            [n \in 1..Cardinality(DOMAIN sequences) |->
                CHOOSE key \in DOMAIN sequences :
                    Cardinality({k \in DOMAIN sequences :
                                    Found(k) < Found(key)
                                    \/ (Found(k) = Found(key)
                                        /\ Len(k) > Len(key))}) = n - 1]
        separations ==
            JoinWords([n \in DOMAIN keys_in_order |-> sequences[keys_in_order[n]]])
        factors_count ==
            CountFactors([n \in DOMAIN separations |-> FindFactors(separations[n])])
        Place(factor) ==
            CHOOSE n \in DOMAIN factors_count.keys : factors_count.keys[n] = factor
        Before(one, other) ==
            \/ factors_count.value[one] > factors_count.value[other]
            \/ /\ factors_count.value[one] = factors_count.value[other]
               /\ Place(one) < Place(other)
        likely == {key_length \in DOMAIN factors_count.value :
                      key_length <= maximum_key_length}
    IN  [n \in 1..Cardinality(likely) |->
            CHOOSE key_length \in likely :
                Cardinality({k \in likely : Before(k, key_length)}) = n - 1]

\* The ciphered texts of _get_likely_key_lengths: blocks of letters that
\* repeat at several separations.
KasiskiBlocks == {<<"a", "b", "c">>, <<"d">>, <<" ">>}

KasiskiTexts ==
    {JoinWords(blocks) : blocks \in UNION {[1..n -> KasiskiBlocks] : n \in 0..MaxBlocks}}

\* likely_key_lengths = _get_likely_key_lengths(ciphered_text, maximum_key_length)
LikelyKeyLengthsCall ==
    /\ call_pc = "call"
    /\ call_fn = "_get_likely_key_lengths"
    /\ call_ret' = GetLikelyKeyLengths(call_args[1], call_args[2])
    /\ call_pc' = "returned"
    /\ UNCHANGED <<call_fn, call_args, connection>>

\* ------------------------------------------------- cipher: the five families
\* str.upper() on one character.
Upper(char) ==
    CASE char = "a" -> "A" [] char = "b" -> "B" [] char = "c" -> "C"
      [] OTHER -> char

\* What a function gives when it raised IndexError instead of returning a
\* text.
IndexError == <<"IndexError">>

\* cipher.caesar._offset_text, always called with its default charset (cipher
\* and decipher do not pass theirs on). Charset stands for that default; a
\* position equal to the charset length is an index out of range.
CaesarOffsetText(t, key, advance) ==
    LET charsetLength == Len(Charset)
        InCharset(char) == Lower(char) \in CharsetLetters
        NewCharPosition(char) ==
            LET char_position == CharsetIndex(Lower(char)) - 1
                offset_position == char_position - key
            IN  IF advance THEN (char_position + key) % charsetLength
                ELSE IF offset_position >= 0 THEN offset_position
                ELSE charsetLength - ((-offset_position) % charsetLength)
    IN  IF \E n \in DOMAIN t :
              InCharset(t[n]) /\ NewCharPosition(t[n]) >= charsetLength
        THEN IndexError
        ELSE [n \in DOMAIN t |->
                IF ~InCharset(t[n]) THEN t[n]
                ELSE IF t[n] \in CharsetLetters
                     THEN Charset[NewCharPosition(t[n]) + 1]
                     ELSE Upper(Charset[NewCharPosition(t[n]) + 1])]

\* cipher.common._get_offset_position
GetOffsetPosition(current_position, key, advance, cipher_used, charsetLength) ==
    IF cipher_used \in {"CAESAR", "VIGENERE"}
    THEN IF advance THEN current_position + key ELSE current_position - key
    ELSE LET multiplying_key == key \div charsetLength
             adding_key == key % charsetLength
         IN  IF advance THEN (current_position * multiplying_key) + adding_key
             ELSE (current_position - adding_key)
                  * FindModInverse(multiplying_key, charsetLength)

\* cipher.common._offset_text with _get_new_char_position: only the
\* characters that are in the charset as they stand are moved.
OffsetText(t, key, advance, cipher_used) ==
    [n \in DOMAIN t |->
        IF t[n] \in CharsetLetters
        THEN Charset[(GetOffsetPosition(CharsetIndex(t[n]) - 1, key, advance,
                                        cipher_used, Len(Charset))
                      % Len(Charset)) + 1]
        ELSE t[n]]

\* cipher.vigenere._vigenere_offset: the characters outside the charset are
\* kept and do not use up a letter of the key.
VigenereOffset(t, key, advance) ==
    [n \in DOMAIN t |->
        IF Lower(t[n]) \notin CharsetLetters THEN t[n]
        ELSE LET skip_accumulator ==
                     Cardinality({k \in 1..(n - 1) :
                                     Lower(t[k]) \notin CharsetLetters})
                 subkey_char == key[((n - 1 - skip_accumulator) % Len(key)) + 1]
                 subkey_offset == CharsetIndex(subkey_char) - 1
                 offset_char == OffsetText(<<Lower(t[n])>>, subkey_offset,
                                           advance, "VIGENERE")[1]
             IN  IF t[n] \in CharsetLetters THEN offset_char
                 ELSE Upper(offset_char)]

\* cipher.substitution.cipher and decipher on a text: capitals follow the
\* substitution of their lowercase letter and stay capitals.
SubstitutionText(t, key, ciphering) ==
    [n \in DOMAIN t |->
        LET lowered == <<Lower(t[n])>>
            new_char == IF ciphering THEN Cipher(lowered, key)[1]
                        ELSE Decipher(lowered, key)[1]
        IN  IF t[n] = Lower(t[n]) THEN new_char ELSE Upper(new_char)]

\* LetterHistogram.match_score: the letters of the top of one that are in the
\* top of the other, plus the same for the bottoms.
MatchScore(one, other) ==
    LET Matches(some, others) ==
            Cardinality({n \in DOMAIN some :
                            \E m \in DOMAIN others : others[m] = some[n]})
    IN  Matches(one.top_matching, other.top_matching)
        + Matches(one.bottom_matching, other.bottom_matching)

\* The first amount letters of the charset, whatever their scores.
FirstLetters(scores, amount) ==
    {Charset[n] : n \in {m \in DOMAIN Charset : m <= amount}}

\* Counter(scores).most_common(amount), as the set of its keys: the amount
\* keys of the highest scores, keys of one score in the order they were
\* inserted, that is the order of the charset.
MostCommon(scores, amount) ==
    LET Before(one, other) ==
            \/ scores[one] > scores[other]
            \/ /\ scores[one] = scores[other]
               /\ CharsetIndex(one) < CharsetIndex(other)
    IN  {letter \in DOMAIN scores :
            Cardinality({other \in DOMAIN scores : Before(other, letter)})
                < amount}

\* The match_score find_most_likely_subkeys gives a letter: the histogram
\* of the substring deciphered with the letter against the reference.
SubkeyScore(substring, reference_histogram, letter) ==
    MatchScore(LetterHistogram(VigenereOffset(substring, <<letter>>, FALSE)),
               reference_histogram)

\* find_most_likely_subkeys: the most common letters, sorted.
FindMostLikelySubkeys(substring, reference_histogram, amount) ==
    LET scores == [letter \in CharsetLetters |->
                      SubkeyScore(substring, reference_histogram, letter)]
        most_common == MostCommon(scores, amount)
    IN  [n \in 1..Cardinality(most_common) |->
            CHOOSE key \in most_common :
                Cardinality({k \in most_common :
                                CodePoint(k) < CodePoint(key)}) = n - 1]

\* The ciphered substrings and the texts of the reference histogram.
SubkeyTexts ==
    UNION {[1..n -> CharsetLetters \cup {"A"}] : n \in 0..MaxTextLen}

ReferenceTexts == UNION {[1..n -> CharsetLetters] : n \in 0..MaxReferenceLen}

\* find_most_likely_subkeys(substring, LetterHistogram(reference), amount)
SubkeysCall ==
    /\ call_pc = "call"
    /\ call_fn = "find_most_likely_subkeys"
    /\ call_ret' = FindMostLikelySubkeys(call_args[1],
                                         LetterHistogram(call_args[2]),
                                         call_args[3])
    /\ call_pc' = "returned"
    /\ UNCHANGED <<call_fn, call_args, connection>>

\* _populate_transposition_matrix from the character at index on: the matrix
\* is given by its cells row after row, numbered from 0; a cell marked "None"
\* is stepped over, once.
RECURSIVE PopulateTranspositionMatrix(_, _, _, _)
PopulateTranspositionMatrix(t, index, offset, matrix) ==
    IF index > Len(t) THEN matrix
    ELSE LET first == index - 1 + offset
             new_offset == IF first \in DOMAIN matrix /\ matrix[first] = "None"
                           THEN offset + 1 ELSE offset
             cell == index - 1 + new_offset
         IN  IF first \notin DOMAIN matrix \/ cell \notin DOMAIN matrix
             THEN IndexError
             ELSE PopulateTranspositionMatrix(t, index + 1, new_offset,
                                              [matrix EXCEPT ![cell] = t[index]])

\* cipher.transposition._transpose_text: the dimensions, the remainder cells
\* (the tail of the last row to cipher, of the last column to decipher), the
\* text row after row, and the cells read column after column. An empty text
\* to cipher gives no row, and matrix[0] is an index out of range.
TransposeText(t, key, ciphering) ==
    LET ceiling == (Len(t) + key - 1) \div key
        total_rows == IF ciphering THEN ceiling ELSE key
        total_columns == IF ciphering THEN key ELSE ceiling
        remainder == (total_columns * total_rows) - Len(t)
        IsRemainder(row, column) ==
            IF ciphering
            THEN row = total_rows - 1 /\ column >= total_columns - remainder
            ELSE column = total_columns - 1 /\ row >= total_rows - remainder
        matrix == [cell \in 0..(total_rows * total_columns - 1) |->
                      IF IsRemainder(cell \div total_columns, cell % total_columns)
                      THEN "None" ELSE ""]
        populated == PopulateTranspositionMatrix(t, 1, 0, matrix)
        by_columns == [n \in 1..(total_rows * total_columns) |->
                          populated[((n - 1) % total_rows) * total_columns
                                    + ((n - 1) \div total_rows)]]
    IN  IF total_rows = 0 \/ populated = IndexError THEN IndexError
        ELSE SelectSeq(by_columns, LAMBDA char : char \notin {"None", ""})

\* The cipher families, the characters of their texts (letters of the
\* charset, a capital, a space), their texts and the valid keys of each: the
\* Caesar keys reach twice the charset length, the affine keys are those that
\* validate_key accepts, the transposition keys go beyond the text length.
CipherFamilies == {"caesar", "affine", "substitution", "transposition", "vigenere"}

CipherTexts == UNION {[1..n -> CharsetLetters \cup {"A", " "}] : n \in 0..MaxTextLen}

CipherKeys(family) ==
    CASE family = "caesar" -> 0..(2 * Len(Charset))
      [] family = "affine" -> {key \in 0..(6 * Len(Charset)) :
                                  ~ValidateKeyRaises(key, Len(Charset))}
      [] family = "substitution" -> SubstitutionKeys
      [] family = "transposition" -> 1..(MaxTextLen + 1)
      [] family = "vigenere" -> UNION {[1..n -> CharsetLetters] : n \in 1..2}

\* cipher(text, key, charset) of the family, or decipher.
CipherText(family, t, key, ciphering) ==
    CASE family = "caesar" -> CaesarOffsetText(t, key, ciphering)
      [] family = "affine" -> OffsetText(t, key, ciphering, "AFFINE")
      [] family = "substitution" -> SubstitutionText(t, key, ciphering)
      [] family = "transposition" -> TransposeText(t, key, ciphering)
      [] family = "vigenere" -> VigenereOffset(t, key, ciphering)

\* decipher(cipher(text, key, charset), key, charset)
RoundTripCall ==
    /\ call_pc = "call"
    /\ call_fn \in CipherFamilies
    /\ LET ciphered == CipherText(call_fn, call_args[1], call_args[2], TRUE)
           deciphered == IF ciphered = IndexError THEN IndexError
                         ELSE CipherText(call_fn, ciphered, call_args[2], FALSE)
       IN  /\ call_ret' = deciphered
           /\ call_pc' = IF deciphered = IndexError THEN "raised" ELSE "returned"
    /\ UNCHANGED <<call_fn, call_args, connection>>

\* ------------------------------------------------------------ Dictionary.open
\* No session: Dictionary.__init__ sets _connection to None.
NoConnection == [state |-> "none", commits |-> 0]

\* Dictionary.open(language, create) up to its yield: _open opens the
\* session; a language of the database is loaded, a new one is created when
\* create is set, and otherwise NotExistingLanguage is raised, out of the
\* generator, with nothing after it.
OpenDictionary ==
    /\ call_pc = "call"
    /\ call_fn = "Dictionary.open"
    /\ connection' = [connection EXCEPT !.state = "open"]
    /\ IF call_args[1] \in DOMAIN dictionaries
       THEN call_pc' = "with" /\ UNCHANGED <<dictionaries, call_ret>>
       ELSE IF call_args[2]
       THEN /\ call_pc' = "with"
            /\ dictionaries' = Append(dictionaries, {})
            /\ UNCHANGED call_ret
       ELSE /\ call_pc' = "raised"
            /\ call_ret' = "NotExistingLanguage"
            /\ UNCHANGED dictionaries
    /\ UNCHANGED <<call_fn, call_args>>

\* Inside the with-block: Dictionary.add_word adds the word and commits.
AddWord ==
    /\ call_pc = "with"
    /\ connection.commits < MaxAddedWords
    /\ \E word \in {<<"a">>, <<"b">>, <<"a", "b">>} :
        dictionaries' = [dictionaries EXCEPT ![call_args[1]] = @ \cup {word}]
    /\ connection' = [connection EXCEPT !.commits = @ + 1]
    /\ UNCHANGED <<call_pc, call_fn, call_args, call_ret>>

\* The with-block ends: the generator goes on after its yield and _close
\* commits and closes the session.
BlockReturns ==
    /\ call_pc = "with"
    /\ connection' = [state |-> "closed", commits |-> connection.commits + 1]
    /\ call_pc' = "returned"
    /\ UNCHANGED <<call_fn, call_args, call_ret, dictionaries>>

\* An exception leaves the with-block: contextlib throws it into the
\* generator at its yield, which no try statement encloses, so the generator
\* ends there and the exception goes on.
BlockRaises ==
    /\ call_pc = "with"
    /\ call_pc' = "raised"
    /\ call_ret' = "Exception"
    /\ UNCHANGED <<call_fn, call_args, connection, dictionaries>>

\* -------------------------------------------------------- one function call
\* No function is being called.
CallIdle ==
    /\ call_pc = "idle"
    /\ call_fn = ""
    /\ call_args = <<>>
    /\ call_ret = None
    /\ connection = NoConnection

\* ------------------------------------------------------------ the machines
HarnessStart(stream, assess) ==
    /\ key_stream = stream
    /\ assessment = assess
    /\ pc = "seq"
    /\ seq_pos = 1
    /\ seq_results = <<>>
    /\ seq_key = None
    /\ seq_early = FALSE
    /\ mp_next = 1
    /\ mp_running = [w \in Workers |-> 0]
    /\ mp_slots = [n \in 1..Len(stream) |-> <<>>]
    /\ mp_order = <<>>
    /\ mp_key = None
    /\ seq_raised = None
    /\ mp_raised = None

InitHarness ==
    /\ \E maximum_key \in 1..MaxKey :
        \E assess \in [1..(maximum_key - 1) -> AssessmentValues] :
            HarnessStart(IntegerKeyGenerator(maximum_key), assess)
    /\ dictionaries = <<>>
    /\ charset_length = 0
    /\ AffineIdle
    /\ LangIdle
    /\ SubIdle
    /\ CallIdle

NextHarness ==
    \/ SeqAssess /\ UNCHANGED notHarnessVars
    \/ SeqSelect /\ UNCHANGED notHarnessVars
    \/ \E w \in Workers : MpDispatch(w) /\ UNCHANGED notHarnessVars
    \/ \E w \in Workers : MpComplete(w) /\ UNCHANGED notHarnessVars
    \/ MpSelect /\ UNCHANGED notHarnessVars

SpecHarness == InitHarness /\ [][NextHarness]_vars

HarnessIdle ==
    /\ key_stream = <<>>
    /\ assessment = <<>>
    /\ pc = "idle"
    /\ seq_pos = 1
    /\ seq_results = <<>>
    /\ seq_key = None
    /\ seq_early = FALSE
    /\ mp_next = 1
    /\ mp_running = [w \in Workers |-> 0]
    /\ mp_slots = <<>>
    /\ mp_order = <<>>
    /\ mp_key = None
    /\ seq_raised = None
    /\ mp_raised = None

\* identify_language called on a text, against a dictionary store.
InitLang ==
    /\ lang_pc = "words"
    /\ text \in Texts
    /\ dictionaries \in DictionaryStores
    /\ words = {}
    /\ candidates = <<>>
    /\ identified = None
    /\ charset_length = 0
    /\ HarnessIdle
    /\ AffineIdle
    /\ SubIdle
    /\ CallIdle

NextLang ==
    \/ LangGetWords /\ UNCHANGED <<harnessVars, affineVars, subVars, callVars,
                                charset_length>>
    \/ LangCandidate /\ UNCHANGED <<harnessVars, affineVars, subVars, callVars,
                                charset_length>>
    \/ LangWinner /\ UNCHANGED <<harnessVars, affineVars, subVars, callVars,
                                charset_length>>

SpecLang == InitLang /\ [][NextLang]_vars

\* A Mapping just constructed, then reduced and cleaned in any sequence.
InitMapping ==
    /\ sub_pc = "mapping"
    /\ cipher_key = <<>>
    /\ ciphered_words = {}
    /\ language = 0
    /\ pending_words = {}
    /\ mapping = Mapping
    /\ prev_mapping = Mapping
    /\ last_op = "new"
    /\ possible_mappings = <<>>
    /\ assess_pos = 1
    /\ language_keys = <<>>
    /\ keys_found = <<>>
    /\ hacked = None
    /\ first_assigned = Mapping
    /\ dictionaries = <<>>
    /\ charset_length = 0
    /\ HarnessIdle
    /\ AffineIdle
    /\ LangIdle
    /\ CallIdle

NextMapping ==
    \/ MapReduce /\ UNCHANGED <<harnessVars, affineVars, langVars, callVars,
                             dictionaries, charset_length>>
    \/ MapClean /\ UNCHANGED <<harnessVars, affineVars, langVars, callVars,
                             dictionaries, charset_length>>
    \/ MapExpand /\ UNCHANGED <<harnessVars, affineVars, langVars, callVars,
                              dictionaries, charset_length>>

SpecMapping == InitMapping /\ [][NextMapping]_vars

\* A Mapping just constructed, then reduced by the word mappings of one word
\* after another, as the loop of _generate_language_mapping does.
NextReduce ==
    LanguageMappingReduce /\ UNCHANGED <<harnessVars, affineVars, langVars, callVars,
                            dictionaries, charset_length>>

SpecReduce == InitMapping /\ [][NextReduce]_vars

\* hack_substitution called on the words of a text ciphered with a key,
\* against a dictionary store.
InitSubstitution ==
    /\ dictionaries \in SubstitutionStores
    /\ cipher_key \in SubstitutionKeys
    /\ \E plain_words \in SUBSET PlainWords :
        /\ Cardinality(plain_words) \in 0..MaxTextWords
        /\ ciphered_words = {Cipher(word, cipher_key) : word \in plain_words}
    /\ sub_pc = "fold"
    /\ language = 1
    /\ pending_words = ciphered_words
    /\ mapping = Mapping
    /\ prev_mapping = Mapping
    /\ last_op = "new"
    /\ possible_mappings = <<>>
    /\ assess_pos = 1
    /\ language_keys = <<>>
    /\ keys_found = <<>>
    /\ hacked = None
    /\ first_assigned = Mapping
    /\ charset_length = 0
    /\ HarnessIdle
    /\ AffineIdle
    /\ LangIdle
    /\ CallIdle

NextSubstitution ==
    \/ SubReduce /\ UNCHANGED <<harnessVars, affineVars, langVars, callVars,
                             dictionaries, charset_length>>
    \/ SubClean /\ UNCHANGED <<harnessVars, affineVars, langVars, callVars,
                             dictionaries, charset_length>>
    \/ SubExpand /\ UNCHANGED <<harnessVars, affineVars, langVars, callVars,
                             dictionaries, charset_length>>
    \/ SubAssess /\ UNCHANGED <<harnessVars, affineVars, langVars, callVars,
                             dictionaries, charset_length>>
    \/ SubMerge /\ UNCHANGED <<harnessVars, affineVars, langVars, callVars,
                             dictionaries, charset_length>>
    \/ SubBest /\ UNCHANGED <<harnessVars, affineVars, langVars, callVars,
                             dictionaries, charset_length>>

SpecSubstitution == InitSubstitution /\ [][NextSubstitution]_vars

\* hack_substitution and then hack_substitution_mp called on the same words
\* and the same dictionary store.
InitHack ==
    /\ dictionaries \in SubstitutionStores
    /\ cipher_key \in SubstitutionKeys
    /\ \E plain_words \in SUBSET PlainWords :
        /\ Cardinality(plain_words) \in 0..MaxTextWords
        /\ ciphered_words = {Cipher(word, cipher_key) : word \in plain_words}
    /\ sub_pc = "fold"
    /\ language = 1
    /\ pending_words = ciphered_words
    /\ mapping = Mapping
    /\ prev_mapping = Mapping
    /\ last_op = "new"
    /\ possible_mappings = <<>>
    /\ assess_pos = 1
    /\ language_keys = <<>>
    /\ keys_found = <<>>
    /\ hacked = None
    /\ first_assigned = Mapping
    /\ call_pc = "call"
    /\ call_fn = "hack_substitution_mp"
    /\ call_args = [n \in DOMAIN dictionaries |-> <<>>]
    /\ call_ret = None
    /\ connection = NoConnection
    /\ charset_length = 0
    /\ HarnessIdle
    /\ AffineIdle
    /\ LangIdle

NextHack ==
    \/ NextSubstitution
    \/ MpGetPossibleMappings /\ UNCHANGED <<harnessVars, affineVars, langVars,
                                            subVars, dictionaries,
                                            charset_length>>
    \/ MpGetBestKey /\ UNCHANGED <<harnessVars, affineVars, langVars, subVars,
                                   dictionaries, charset_length>>

SpecHack == InitHack /\ [][NextHack]_vars

\* _assess_affine_key called on a key of the key space of a charset.
InitAffineKey ==
    /\ charset_length \in 2..MaxCharsetLength
    /\ af_key \in 1..(charset_length * charset_length - 1)
    /\ af_deciphered \in AffineOutcomes
    /\ af_pc = "call"
    /\ af_result = None
    /\ dictionaries = <<>>
    /\ HarnessIdle
    /\ LangIdle
    /\ SubIdle
    /\ CallIdle

\* affine.brute_force and brute_force_mp: the harness over the key space
\* len(charset) ** 2, with _assess_affine_key as its assess function.
InitAffine ==
    /\ charset_length \in {n \in 2..MaxCharsetLength : n * n <= MaxKey}
    /\ \E deciphered \in [1..(charset_length * charset_length - 1)
                            -> AffineOutcomes] :
        HarnessStart(IntegerKeyGenerator(charset_length * charset_length),
                     [key \in 1..(charset_length * charset_length - 1) |->
                        AssessAffineKey(key, charset_length, deciphered[key])])
    /\ dictionaries = <<>>
    /\ AffineIdle
    /\ LangIdle
    /\ SubIdle
    /\ CallIdle

\* The assessment of candidate keys: of affine keys, alone and under the
\* harness, and of the keys of the substitution solver.
InitAssess == InitAffineKey \/ InitAffine \/ InitSubstitution

NextAssess ==
    \/ AffineAssess /\ UNCHANGED <<harnessVars, langVars, subVars, callVars,
                                   dictionaries, charset_length>>
    \/ NextHarness
    \/ NextSubstitution

SpecAssess == InitAssess /\ [][NextAssess]_vars

\* The functions of attack/frequency called on a text.
InitHistogram ==
    /\ call_pc = "call"
    /\ call_fn = "LetterHistogram"
    /\ call_args \in FrequencyTexts
    /\ call_ret = None
    /\ connection = NoConnection

InitRepeat ==
    /\ call_pc = "call"
    /\ call_fn \in {"find_repeated_sequences", "get_substrings"}
    /\ call_args \in RepeatTexts \X (1..MaxWindow)
    /\ call_ret = None
    /\ connection = NoConnection

InitSubkeys ==
    /\ call_pc = "call"
    /\ call_fn = "find_most_likely_subkeys"
    /\ call_args \in SubkeyTexts \X ReferenceTexts \X (0..MaxAmount)
    /\ call_ret = None
    /\ connection = NoConnection

InitKeyLengths ==
    /\ call_pc = "call"
    /\ call_fn = "_get_likely_key_lengths"
    /\ call_args \in KasiskiTexts \X (1..MaxKeyLength)
    /\ call_ret = None
    /\ connection = NoConnection

InitFrequency ==
    /\ InitHistogram \/ InitRepeat \/ InitSubkeys \/ InitKeyLengths
    /\ dictionaries = <<>>
    /\ charset_length = 0
    /\ HarnessIdle
    /\ AffineIdle
    /\ LangIdle
    /\ SubIdle

NextFrequency ==
    \/ HistogramCall /\ UNCHANGED <<harnessVars, affineVars, langVars, subVars,
                                    dictionaries, charset_length>>
    \/ RepeatCall /\ UNCHANGED <<harnessVars, affineVars, langVars, subVars,
                                 dictionaries, charset_length>>
    \/ SetMatchingWidthCall /\ UNCHANGED <<harnessVars, affineVars, langVars,
                                           subVars, dictionaries,
                                           charset_length>>
    \/ SubkeysCall /\ UNCHANGED <<harnessVars, affineVars, langVars, subVars,
                                  dictionaries, charset_length>>
    \/ LikelyKeyLengthsCall /\ UNCHANGED <<harnessVars, affineVars, langVars,
                                           subVars, dictionaries,
                                           charset_length>>

SpecFrequency == InitFrequency /\ [][NextFrequency]_vars

\* The functions of the cipher package, and get_word_pattern, called on their
\* arguments.
InitModInverse ==
    /\ call_pc = "call"
    /\ call_fn = "find_mod_inverse"
    /\ call_args \in (1..MaxModulus + 2) \X (2..MaxModulus)
    /\ call_ret = None
    /\ connection = NoConnection

InitRoundTrip ==
    /\ call_pc = "call"
    /\ call_fn \in CipherFamilies
    /\ call_args \in CipherTexts \X CipherKeys(call_fn)
    /\ call_ret = None
    /\ connection = NoConnection

\* get_word_pattern called on a word: letters of the charset and a letter
\* outside it.
InitWordPattern ==
    /\ call_pc = "call"
    /\ call_fn = "get_word_pattern"
    /\ call_args \in UNION {[1..n -> CharsetLetters \cup {"x"}] : n \in 0..MaxWordLen}
    /\ call_ret = None
    /\ connection = NoConnection

InitCipher ==
    /\ InitModInverse \/ InitRoundTrip \/ InitWordPattern
    /\ dictionaries = <<>>
    /\ charset_length = 0
    /\ HarnessIdle
    /\ AffineIdle
    /\ LangIdle
    /\ SubIdle

NextCipher ==
    \/ ModInverseCall /\ UNCHANGED <<harnessVars, affineVars, langVars, subVars,
                                     dictionaries, charset_length>>
    \/ RoundTripCall /\ UNCHANGED <<harnessVars, affineVars, langVars, subVars,
                                    dictionaries, charset_length>>
    \/ WordPatternCall /\ UNCHANGED <<harnessVars, affineVars, langVars, subVars,
                                      dictionaries, charset_length>>

SpecCipher == InitCipher /\ [][NextCipher]_vars

\* Dictionary.open called as a context manager on a database of languages,
\* for a language of the database or the one after them.
InitDictionary ==
    /\ dictionaries \in DictionaryStores
    /\ call_pc = "call"
    /\ call_fn = "Dictionary.open"
    /\ call_args \in (1..(Len(dictionaries) + 1)) \X BOOLEAN
    /\ call_ret = None
    /\ connection = NoConnection
    /\ charset_length = 0
    /\ HarnessIdle
    /\ AffineIdle
    /\ LangIdle
    /\ SubIdle

NextDictionary ==
    \/ OpenDictionary /\ UNCHANGED <<harnessVars, affineVars, langVars, subVars,
                                     charset_length>>
    \/ AddWord /\ UNCHANGED <<harnessVars, affineVars, langVars, subVars,
                              charset_length>>
    \/ BlockReturns /\ UNCHANGED <<harnessVars, affineVars, langVars, subVars,
                                   charset_length>>
    \/ BlockRaises /\ UNCHANGED <<harnessVars, affineVars, langVars, subVars,
                                  charset_length>>

SpecDictionary == InitDictionary /\ [][NextDictionary]_vars

\* ------------------------------------------------- harness: claims C1-C3, C5
\* The winner probability the assess function gave a key (0: no winner, or
\* not a key of the stream).
KeyProbability(key) ==
    IF key \in DOMAIN assessment /\ assessment[key].winner # None
    THEN assessment[key].winner_probability
    ELSE 0

\* The results of the whole stream, in generation order.
GenerationOrderResults ==
    [n \in 1..Len(key_stream) |-> <<key_stream[n], assessment[key_stream[n]]>>]

\* The tasks whose assessment has a winner.
WinnerTasks ==
    {n \in 1..Len(key_stream) : assessment[key_stream[n]].winner # None}

\* The key of the first task, in generation order, with the highest winner
\* probability (0 when no task has a winner).
FirstBestKey ==
    IF WinnerTasks = {} THEN 0
    ELSE key_stream[CHOOSE n \in WinnerTasks :
            \A m \in WinnerTasks :
                \/ KeyProbability(key_stream[m]) < KeyProbability(key_stream[n])
                \/ /\ KeyProbability(key_stream[m]) = KeyProbability(key_stream[n])
                   /\ n <= m]

NoCandidateCloseToOne ==
    \A key \in DOMAIN assessment :
        assessment[key].winner_probability < Scale - AbsTol

\* C1: when no candidate of the stream reaches a winner probability within
\* 0.01 of 1.0, _brute_force and _brute_force_mp select the same key.
C1_SequentialEqualsParallel ==
    (pc = "done" /\ NoCandidateCloseToOne) => seq_key = mp_key

C1_Witness ==
    /\ pc = "done"
    /\ NoCandidateCloseToOne
    /\ Cardinality(WinnerTasks) >= 2
    /\ seq_key = mp_key
    /\ seq_key = key_stream[2]

\* C2: in parallel mode the results are collected in candidate-generation
\* order whatever the order the workers finish in, so the selected key is the
\* first best key of the stream for every completion order.
C2_CompletionOrderIrrelevant ==
    pc = "done" =>
        /\ PoolMap(mp_slots, mp_order) = GenerationOrderResults
        /\ mp_key = FirstBestKey

\* Two tasks tie for the highest probability and the later one finished first.
C2_Witness ==
    /\ pc = "done"
    /\ \E n, m \in WinnerTasks :
        /\ n < m
        /\ key_stream[n] = FirstBestKey
        /\ KeyProbability(key_stream[m]) = KeyProbability(key_stream[n])
        /\ \E a, b \in 1..Len(mp_order) :
            a < b /\ mp_order[a] = m /\ mp_order[b] = n
    /\ mp_key = FirstBestKey

\* C3 as stated: the key of an early return is at least as probable as the
\* key parallel mode selects.
C3_EarlyReturnAtLeastAsConfident ==
    (pc = "done" /\ seq_early) =>
        KeyProbability(seq_key) >= KeyProbability(mp_key)

\* C3 amended: the key of an early return has a winner probability within
\* 0.01 of 1.0; the key parallel mode selects is never less probable and at
\* most 0.01 more probable.
C3_EarlyReturnWithinTolerance ==
    (pc = "done" /\ seq_early) =>
        /\ KeyProbability(seq_key) > Scale - AbsTol
        /\ KeyProbability(seq_key) <= KeyProbability(mp_key)
        /\ KeyProbability(mp_key) - KeyProbability(seq_key) <= AbsTol

C3_Witness ==
    /\ pc = "done"
    /\ seq_early
    /\ KeyProbability(seq_key) < KeyProbability(mp_key)
    /\ seq_key # mp_key

\* C5: when no assessed candidate has a winner, the harness returns the first
\* key tried, a key of the candidate stream.
C5_DefaultIsFirstKeyTried ==
    (/\ pc = "done"
     /\ Len(key_stream) >= 1
     /\ WinnerTasks = {}) =>
        /\ seq_key = key_stream[1]
        /\ mp_key = key_stream[1]

\* ------------------------------------------ language identifier: claims C7, C8
\* C7: identify_language on a text that yields zero words does not raise a
\* division fault: every language gets probability 0 and there is no winner.
C7_ZeroWordsNoFault ==
    (lang_pc \in {"returned", "raised"} /\ words = {}) =>
        /\ lang_pc = "returned"
        /\ identified.winner = None
        /\ \A lang \in DOMAIN identified.candidates :
            identified.candidates[lang] = 0

\* C8: every IdentifiedLanguage returned has winner None iff every candidate
\* probability is 0; otherwise the winner is the first language, in
\* enumeration order, of the greatest probability, and winner_probability is
\* that language's probability.
C8_WinnerIsFirstGreatest ==
    lang_pc = "returned" =>
        LET cands == identified.candidates
            languages == DOMAIN cands
        IN  /\ identified.winner = None <=> \A l \in languages : cands[l] = 0
            /\ identified.winner # None =>
                /\ identified.winner \in languages
                /\ \A l \in languages : cands[l] <= cands[identified.winner]
                /\ \A l \in languages :
                    l < identified.winner => cands[l] < cands[identified.winner]
                /\ identified.winner_probability = cands[identified.winner]
            /\ identified.winner = None => identified.winner_probability = None

\* Two languages share the greatest probability and the first one wins.
C8_Witness ==
    /\ lang_pc = "returned"
    /\ identified.winner = 1
    /\ \E l \in DOMAIN identified.candidates :
        /\ l > 1
        /\ identified.candidates[l] = identified.candidates[1]
    /\ \E l \in DOMAIN identified.candidates : identified.candidates[l] = 0

\* ------------------------------------------------- Mapping: claims C9, C10
\* C9 as stated: no cipherletter's candidate set has more elements after a
\* reduce_mapping call than it had before that call.
C9_ReduceNeverGrows ==
    last_op = "reduce" =>
        \A cipherletter \in CharsetLetters :
            Cardinality(mapping[cipherletter])
                <= Cardinality(prev_mapping[cipherletter])

\* C9, amended: a candidate set that held a candidate before a reduce_mapping
\* call holds after it no candidate it did not hold before; only a set that
\* was empty before the call can gain candidates.
C9_ReduceShrinksNonEmpty ==
    last_op = "reduce" =>
        \A cipherletter \in CharsetLetters :
            prev_mapping[cipherletter] # {} =>
                mapping[cipherletter] \subseteq prev_mapping[cipherletter]

\* A reduce_mapping call has intersected one set to fewer candidates and
\* given an empty set its first candidates.
C9_Witness ==
    /\ last_op = "reduce"
    /\ \E cipherletter \in CharsetLetters :
        /\ Cardinality(prev_mapping[cipherletter]) > 1
        /\ mapping[cipherletter] # prev_mapping[cipherletter]
    /\ \E cipherletter \in CharsetLetters :
        /\ prev_mapping[cipherletter] = {}
        /\ Cardinality(mapping[cipherletter]) > 1

\* C10: after clean_redundancies returns, no letter that is the only member
\* of a one-element candidate set is in a candidate set of more than one
\* element.
C10_NoSingletonInLargerSet ==
    last_op = "clean" =>
        \A single \in CharsetLetters, other \in CharsetLetters :
            (Cardinality(mapping[single]) = 1
             /\ Cardinality(mapping[other]) > 1) =>
                mapping[single] \cap mapping[other] = {}

\* ------------------------------------------------ hack_substitution: claim C4
\* The words of the plain text, recovered with the key that ciphered them.
PlainTextWords == {Decipher(word, cipher_key) : word \in ciphered_words}

\* Every word of the plain text is in the dictionary of one language.
WordsInDictionary ==
    \E lang \in DOMAIN dictionaries : PlainTextWords \subseteq dictionaries[lang]

\* Every letter of the charset occurs in the plain text.
EveryLetterUsed ==
    \A c \in CharsetLetters :
        \E word \in PlainTextWords : \E n \in DOMAIN word : word[n] = c

\* C4 as stated: for a text whose words are all in the dictionary of its
\* language, hack_substitution returns exactly the key that ciphered it, with
\* probability 1.0.
C4_RecoversExactKey ==
    (sub_pc = "done" /\ WordsInDictionary) =>
        /\ hacked.key = cipher_key
        /\ hacked.probability = Scale

\* C4, amended: for a text whose words are all in the dictionary of its
\* language and that uses every letter of the charset, hack_substitution
\* returns probability 1.0 and a key that deciphers every word of the text to
\* a word of one dictionary; the ciphering key is among the keys scored 1.0,
\* and it is the key returned when no other key scored 1.0.
C4_RecoversKeyOfFullText ==
    (sub_pc = "done" /\ WordsInDictionary /\ EveryLetterUsed) =>
        /\ hacked.probability = Scale
        /\ ~WrongSubstitutionKey(hacked.key)
        /\ \E lang \in DOMAIN dictionaries :
            {Decipher(word, hacked.key) : word \in ciphered_words}
                \subseteq dictionaries[lang]
        /\ cipher_key \in DOMAIN keys_found
        /\ keys_found[cipher_key] = Scale
        /\ (\A key \in DOMAIN keys_found :
                keys_found[key] = Scale => key = cipher_key)
            => hacked.key = cipher_key

\* hack_substitution has returned the key of a text that uses every letter,
\* a key that is not the identity, out of several keys it assessed.
C4_Witness ==
    /\ sub_pc = "done"
    /\ WordsInDictionary
    /\ EveryLetterUsed
    /\ cipher_key # Charset
    /\ hacked.key = cipher_key
    /\ Cardinality(DOMAIN keys_found) > 1

\* ---------------------------------------------- invalid candidate keys: claim C6
\* The result _assess_affine_key gives a key validate_key rejects.
NoWinner == IdentifiedLanguage(None, None, <<>>)

C11_CleanKeepsSingletons ==
    last_op = "clean" =>
        \A cipherletter \in CharsetLetters :
            Cardinality(prev_mapping[cipherletter]) = 1 =>
                mapping[cipherletter] = prev_mapping[cipherletter]

\* clean_redundancies has run on a mapping in which two cipherletters held
\* the same single candidate and a third set held it among others: the third
\* lost it, the two kept it.
C11_Witness ==
    /\ last_op = "clean"
    /\ \E one, two, other \in CharsetLetters :
        /\ one # two
        /\ Cardinality(prev_mapping[one]) = 1
        /\ prev_mapping[two] = prev_mapping[one]
        /\ mapping[one] = prev_mapping[one]
        /\ mapping[two] = prev_mapping[two]
        /\ Cardinality(prev_mapping[other]) > 1
        /\ prev_mapping[one] \subseteq prev_mapping[other]
        /\ mapping[other] # prev_mapping[other]

\* ------------------------------------------------------ harness: claims C19, C20
\* The tasks whose winner probability is closer than 0.01 to 1.0.
CloseTasks ==
    {n \in 1..Len(key_stream) :
        /\ assessment[key_stream[n]].winner # None
        /\ assessment[key_stream[n]].winner_probability > Scale - AbsTol}

\* The first of a set of tasks, in stream order.
FirstTask(tasks) == CHOOSE n \in tasks : \A m \in tasks : n <= m

\* C19: in sequential mode the harness returns the key of the first
\* candidate, in stream order, whose winner probability is within 0.01 of
\* 1.0, and has assessed no candidate after it; parallel mode has assessed
\* every candidate when it selects.
C19_SequentialStopsAtFirstClose ==
    /\ (pc \in {"mp", "done"} /\ CloseTasks # {}) =>
        /\ seq_early
        /\ seq_key = key_stream[FirstTask(CloseTasks)]
        /\ seq_pos = FirstTask(CloseTasks)
        /\ Len(seq_results) = FirstTask(CloseTasks) - 1
    /\ (pc \in {"mp", "done"} /\ CloseTasks = {}) =>
        /\ ~seq_early
        /\ Len(seq_results) = Len(key_stream)
    /\ pc = "done" =>
        /\ \A task \in 1..Len(key_stream) :
            mp_slots[task] = <<key_stream[task], assessment[key_stream[task]]>>
        /\ Len(mp_order) = Len(key_stream)

\* Both harnesses have run on a stream whose second candidate is the first
\* close to 1.0 and that has a candidate after it: sequential mode stopped at
\* the second, parallel mode assessed the third too.
C19_Witness ==
    /\ pc = "done"
    /\ Len(key_stream) >= 3
    /\ CloseTasks # {}
    /\ FirstTask(CloseTasks) = 2
    /\ seq_early
    /\ seq_key = key_stream[2]
    /\ Len(seq_results) = 1
    /\ mp_slots[3] # <<>>

\* In a list of results, the position get_best_result has to select: the
\* earliest entry of the highest winner probability among those with a winner.
BestEntry(results) ==
    LET winners == {n \in DOMAIN results : results[n][2].winner # None}
    IN  CHOOSE n \in winners :
            \A m \in winners :
                \/ results[m][2].winner_probability
                        < results[n][2].winner_probability
                \/ /\ results[m][2].winner_probability
                        = results[n][2].winner_probability
                   /\ n <= m

HasWinner(results) == \E n \in DOMAIN results : results[n][2].winner # None

\* C20: on a list of results in which some entry has a winner,
\* get_best_result returns the key of the entry of the highest
\* winner_probability, entries without a winner ignored, the earliest entry
\* when several share the highest.
C20_BestResultIsEarliestHighest ==
    /\ (pc \in {"mp", "done"} /\ ~seq_early /\ seq_raised = None
        /\ HasWinner(seq_results)) =>
            seq_key = seq_results[BestEntry(seq_results)][1]
    /\ (pc = "done" /\ mp_raised = None
        /\ HasWinner(PoolMap(mp_slots, mp_order))) =>
            mp_key = PoolMap(mp_slots, mp_order)[
                        BestEntry(PoolMap(mp_slots, mp_order))][1]

\* get_best_result has selected from a list with an entry without a winner
\* first, then two entries that share the highest probability: the key is
\* that of the earlier of the two.
C20_Witness ==
    /\ pc = "done"
    /\ ~seq_early
    /\ Len(seq_results) = 3
    /\ seq_results[1][2].winner = None
    /\ seq_results[2][2].winner # None
    /\ seq_results[3][2] = seq_results[2][2]
    /\ seq_key = seq_results[2][1]
    /\ mp_key = seq_results[2][1]

\* ------------------------------------------------- LetterHistogram: claim C12
\* The counts of the letters of the charset, added up.
RECURSIVE SumCharsetCounts(_, _)
SumCharsetCounts(histogram, n) ==
    IF n = 0 THEN 0
    ELSE histogram.ordered_dict.value[Charset[n]]
         + SumCharsetCounts(histogram, n - 1)

\* C12: a LetterHistogram built from any text has an entry for every letter
\* of the charset, frequency() gives a value for each, and their counts add
\* up to the total letter count (the frequencies sum to 1), texts without
\* letters and texts with letters outside the charset included.
C12_HistogramSumsToOne ==
    (call_pc = "returned" /\ call_fn = "LetterHistogram") =>
        /\ \A letter \in CharsetLetters :
            /\ letter \in DOMAIN call_ret.ordered_dict.value
            /\ Frequency(call_ret, letter) # ZeroDivisionError
        /\ SumCharsetCounts(call_ret, Len(Charset)) = call_ret.total_letters

\* ------------------------------------------------ find_mod_inverse: claim C18
\* The integers a and m have no common divisor above 1.
Coprime(a, m) == \A n \in 2..m : ~(a % n = 0 /\ m % n = 0)

\* C18: for a >= 1 and m >= 2, find_mod_inverse(a, m) is None when a and m
\* are not relatively prime, and otherwise an x with 0 <= x < m and
\* (a * x) mod m = 1.
C18_ModInverse ==
    (call_pc = "returned" /\ call_fn = "find_mod_inverse") =>
        LET a == call_args[1]
            m == call_args[2]
        IN  IF Coprime(a, m)
            THEN /\ call_ret \in 0..(m - 1)
                 /\ (a * call_ret) % m = 1
            ELSE call_ret = None

\* The inverse of 7 modulo 26 was computed, and it is 15.
C18_Witness ==
    /\ call_pc = "returned"
    /\ call_fn = "find_mod_inverse"
    /\ call_args = <<7, 26>>
    /\ call_ret = 15

\* ------------------------------------------------- cipher round trip: claim C13
\* C13: for every cipher family, every text and every valid key,
\* decipher(cipher(text, key, charset), key, charset) returns, and returns
\* the text; the Caesar keys that are multiples of the charset length and
\* the transposition keys that do not divide the text length included.
C13_RoundTrip ==
    (call_fn \in CipherFamilies /\ call_pc # "call") =>
        /\ call_pc = "returned"
        /\ call_ret = call_args[1]

\* ------------------------------------------ find_repeated_sequences: claim C14
\* The places (from 0) where a sequence stands in a letter stream.
Occurrences(stream, sequence) ==
    {n \in 0..(Len(stream) - Len(sequence)) :
        SubSeq(stream, n + 1, n + Len(sequence)) = sequence}

\* C14: find_repeated_sequences records, for each letter sequence of the
\* window length that occurs more than once in the normalized letter stream,
\* the distance between every pair of its occurrences, each pair once.
C14_EveryPairOnce ==
    (call_pc = "returned" /\ call_fn = "find_repeated_sequences") =>
        LET stream == JoinWords(NormalizeText(call_args[1]))
            length == call_args[2]
        IN  \A start \in 0..(Len(stream) - length) :
                LET sequence == SubSeq(stream, start + 1, start + length)
                    places == Occurrences(stream, sequence)
                IN  Cardinality(places) > 1 =>
                        /\ sequence \in DOMAIN call_ret
                        /\ \A distance \in 1..Len(stream) :
                            Cardinality({n \in DOMAIN call_ret[sequence] :
                                            call_ret[sequence][n] = distance})
                            = Cardinality({pair \in places \X places :
                                              pair[2] - pair[1] = distance})

\* --------------------------------------------------- get_substrings: claim C17
\* C17: get_substrings(ciphertext, step) distributes only the letters of the
\* ciphertext, spaces and other characters skipped: substring i holds the
\* letters i, i + step, i + 2 * step... of the letters of the ciphertext,
\* those that a Vigenere key of length step enciphers with its i-th letter.
C17_SubstringsOfLetters ==
    (call_pc = "returned" /\ call_fn = "get_substrings") =>
        LET letters == SelectSeq(call_args[1], IsLetter)
            step == call_args[2]
        IN  \A n \in 1..step :
                /\ \A k \in DOMAIN call_ret[n] : IsLetter(call_ret[n][k])
                /\ call_ret[n] =
                       [k \in 1..Cardinality({m \in DOMAIN letters :
                                                 (m - 1) % step = n - 1}) |->
                           letters[n + (k - 1) * step]]

\* ------------------------------------------------- get_word_pattern: claim C15
\* The list of numbers is the list of the ranks of the letters of the word:
\* the first letter has rank 0, two places have one number exactly when they
\* have one letter, and a letter not seen before gets the number after the
\* highest so far.
IsRankPattern(word, pattern) ==
    /\ Len(pattern) = Len(word)
    /\ \A n \in DOMAIN word :
        /\ \A m \in DOMAIN word : (pattern[n] = pattern[m]) <=> (word[n] = word[m])
        /\ pattern[n] \in 0..Cardinality({word[m] : m \in 1..(n - 1)})

\* C15: get_word_pattern gives the ranks (from 0) of the letters of the word
\* in order of first appearance, joined by dots, and a word and its image
\* under any bijective substitution of letters have the same pattern.
C15_WordPattern ==
    (call_pc = "returned" /\ call_fn = "get_word_pattern") =>
        /\ \E pattern \in [DOMAIN call_args ->
                              0..(Cardinality({call_args[n] : n \in DOMAIN call_args}) - 1)] :
            /\ IsRankPattern(call_args, pattern)
            /\ call_ret = JoinPattern(pattern)
        /\ \A key \in SubstitutionKeys :
            JoinPattern(GetWordPattern(Cipher(call_args, key))) = call_ret

\* The pattern of a word of the shape of 'HGHHU' was computed: 0.1.0.0.2.
C15_Witness ==
    /\ call_pc = "returned"
    /\ call_fn = "get_word_pattern"
    /\ call_args = <<"c", "b", "c", "c", "a">>
    /\ call_ret = "0.1.0.0.2"

\* --------------------------------------------------- Dictionary.open: claim C16
\* C16: every Dictionary.open that opened a session has committed and closed
\* it once the with statement is left, by the end of the block, by an
\* exception raised in the block, or by NotExistingLanguage.
C16_SessionClosedOnExit ==
    (call_fn = "Dictionary.open" /\ call_pc \in {"returned", "raised"}
        /\ connection.state # "none") =>
        /\ connection.state = "closed"
        /\ connection.commits >= 1

\* ------------------------------------------------ clean_redundancies: claim C29
\* C29: clean_redundancies never leaves empty a candidate set that was not
\* empty before the call.
C29_CleanLeavesNoSetEmpty ==
    last_op = "clean" =>
        \A cipherletter \in CharsetLetters :
            prev_mapping[cipherletter] # {} => mapping[cipherletter] # {}

\* --------------------------------------------- get_possible_mappings: claim C22
\* The Cartesian product of the non-empty candidate sets of a mapping: the
\* mappings that hold one candidate of the set for every cipherletter whose
\* set is not empty and no candidate for the others.
CartesianProduct(self) ==
    {combination \in [CharsetLetters -> SUBSET CharsetLetters] :
        \A cipherletter \in CharsetLetters :
            IF self[cipherletter] = {} THEN combination[cipherletter] = {}
            ELSE \E candidate \in self[cipherletter] :
                    combination[cipherletter] = {candidate}}

\* C22: get_possible_mappings returns exactly one mapping per element of the
\* Cartesian product of the non-empty candidate sets: none that is not of the
\* product, none missing, none twice.
C22_OnePerCombination ==
    last_op = "expand" =>
        /\ {possible_mappings[n] : n \in DOMAIN possible_mappings}
               = CartesianProduct(mapping)
        /\ Len(possible_mappings) = Cardinality(CartesianProduct(mapping))

\* get_possible_mappings has expanded a mapping with two sets of two
\* candidates and an empty set into four mappings.
C22_Witness ==
    /\ last_op = "expand"
    /\ Len(possible_mappings) = 4
    /\ \E cipherletter \in CharsetLetters : mapping[cipherletter] = {}
    /\ \A cipherletter \in CharsetLetters :
        Cardinality(mapping[cipherletter]) \in {0, 2}

\* --------------------------------------- generate_key_string: claims C23, C28
\* The possible mapping _assess_candidate_keys assessed last.
LastAssessed == possible_mappings[assess_pos - 1]

\* C23: the key string of a fully reduced mapping has the length of the
\* charset; at the position of a charset letter p stands a cipherletter whose
\* single candidate is p, and p itself when no cipherletter has p as its
\* candidate. The key is the one that was scored.
C23_KeyStringOfMapping ==
    (sub_pc = "assess" /\ assess_pos > 1) =>
        \E key \in DOMAIN language_keys :
            /\ Len(key) = Len(Charset)
            /\ \A n \in DOMAIN Charset :
                LET holders == {cipherletter \in CharsetLetters :
                                   LastAssessed[cipherletter] = {Charset[n]}}
                IN  IF holders = {} THEN key[n] = Charset[n]
                    ELSE key[n] \in holders

\* A key string was generated from a mapping in which one cipherletter has
\* the candidate of another position and one letter has no holder.
C23_Witness ==
    /\ sub_pc = "assess"
    /\ assess_pos > 1
    /\ \E n \in DOMAIN Charset : LastAssessed[Charset[n]] = {}
    /\ \E n \in DOMAIN Charset :
        \A cipherletter \in CharsetLetters :
            LastAssessed[cipherletter] # {Charset[n]}
    /\ \E n \in DOMAIN Charset, cipherletter \in CharsetLetters :
        cipherletter # Charset[n] /\ LastAssessed[cipherletter] = {Charset[n]}

\* C28 as stated: every key string the solver generates is a valid
\* substitution key, of the length of the charset and without a repeated
\* character.
C28_GeneratedKeysValid ==
    \A key \in DOMAIN language_keys : ~WrongSubstitutionKey(key)

\* C28, amended: every key string the solver generates has the length of the
\* charset; one with a repeated character is scored 0; and the key of a
\* mapping in which every cipherletter holds one candidate, all of them
\* different, has no repeated character.
C28_GeneratedKeysChecked ==
    /\ \A key \in DOMAIN language_keys :
        /\ Len(key) = Len(Charset)
        /\ WrongSubstitutionKey(key) => language_keys[key] = 0
    /\ (sub_pc = "assess" /\ assess_pos > 1
        /\ \A cipherletter \in CharsetLetters :
            /\ Cardinality(LastAssessed[cipherletter]) = 1
            /\ \A other \in CharsetLetters \ {cipherletter} :
                LastAssessed[other] # LastAssessed[cipherletter]) =>
            \E key \in DOMAIN language_keys :
                /\ ~WrongSubstitutionKey(key)
                /\ \A n \in DOMAIN Charset : LastAssessed[key[n]] = {Charset[n]}

\* The solver has scored one key with a repeated character, whose deciphered
\* words are words of the language, and one key without.
C28_Witness ==
    /\ \E key \in DOMAIN language_keys :
        /\ WrongSubstitutionKey(key)
        /\ \E word \in ciphered_words :
            Decipher(word, key) \in dictionaries[language]
    /\ \E key \in DOMAIN language_keys : ~WrongSubstitutionKey(key)

\* ------------------------------------------------- keys_found fold: claim C24
\* The languages folded so far gave every key of keys_found its scores; the
\* fold of one more language leaves every key with the higher of the
\* probability recorded and the score of that language.
HigherScore(key) ==
    IF key \notin DOMAIN language_keys THEN keys_found[key]
    ELSE IF key \notin DOMAIN keys_found THEN language_keys[key]
    ELSE IF language_keys[key] < keys_found[key] THEN keys_found[key]
    ELSE language_keys[key]

\* C24: every fold of the keys of a language into keys_found records, for
\* every key string, the maximum of the probability recorded by the languages
\* before and the score the folded language gave it; so after the last fold
\* every key holds the maximum of the scores of the languages that generated
\* it, in whatever order the languages came.
C24_FoldRecordsMaximum ==
    [][(sub_pc = "assess" /\ assess_pos > Len(possible_mappings)) =>
          /\ DOMAIN keys_found' = DOMAIN keys_found \cup DOMAIN language_keys
          /\ \A key \in DOMAIN keys_found' : keys_found'[key] = HigherScore(key)]_vars

\* Two languages generated the same key string with different scores, the
\* lower one last, and the fold has kept the higher one.
C24_Witness ==
    /\ sub_pc = "best"
    /\ \E key \in DOMAIN language_keys :
        /\ key \in DOMAIN keys_found
        /\ language_keys[key] < keys_found[key]

\* ------------------------------------------- reduce_mapping calls: claim C21
\* C21: across every sequence of reduce_mapping calls on one Mapping, the set
\* of a cipherletter is assigned from empty once and then only intersected:
\* it never holds a letter it did not hold right after that assignment.
C21_AssignedOnceThenShrinks ==
    \A cipherletter \in CharsetLetters :
        mapping[cipherletter] \subseteq first_assigned[cipherletter]

\* ------------------------------------------ LetterHistogram order: claim C25
\* C25: for every text and width k the letters of the histogram are ordered
\* by count from the highest, letters of one count in alphabetical order;
\* top_matching is the first k letters of that order and bottom_matching the
\* last k (all of them when there are fewer than k).
C25_OrderedTopAndBottom ==
    (call_pc = "returned" /\ call_fn = "set_matching_width") =>
        LET keys == call_ret.ordered_dict.keys
            value == call_ret.ordered_dict.value
            width == call_args[2]
            k == IF width < Len(keys) THEN width ELSE Len(keys)
        IN  /\ \A n \in 1..(Len(keys) - 1) :
                \/ value[keys[n]] > value[keys[n + 1]]
                \/ /\ value[keys[n]] = value[keys[n + 1]]
                   /\ CodePoint(keys[n]) < CodePoint(keys[n + 1])
            /\ call_ret.top_matching = SubSeq(keys, 1, k)
            /\ call_ret.bottom_matching
                   = SubSeq(keys, Len(keys) - k + 1, Len(keys))

\* ------------------------------------------ find_most_likely_subkeys: claim C26
\* The letters find_most_likely_subkeys returned.
Returned == {call_ret[n] : n \in DOMAIN call_ret}

\* C26: find_most_likely_subkeys returns exactly min(amount, size of the
\* charset) letters in ascending order, and no letter left out has a higher
\* match_score than a letter returned.
C26_MostLikelySubkeys ==
    (call_pc = "returned" /\ call_fn = "find_most_likely_subkeys") =>
        LET amount == call_args[3]
            Score(letter) ==
                SubkeyScore(call_args[1], LetterHistogram(call_args[2]), letter)
        IN  /\ Len(call_ret) = IF amount < Len(Charset) THEN amount
                               ELSE Len(Charset)
            /\ Returned \subseteq CharsetLetters
            /\ \A n \in 1..(Len(call_ret) - 1) :
                CodePoint(call_ret[n]) < CodePoint(call_ret[n + 1])
            /\ \A left_out \in CharsetLetters \ Returned :
                \A letter \in Returned : Score(left_out) <= Score(letter)

\* find_most_likely_subkeys returned two of the three letters, not the first
\* two of the charset, and left out a letter of a lower score than both.
C26_Witness ==
    /\ call_pc = "returned"
    /\ call_fn = "find_most_likely_subkeys"
    /\ Len(call_ret) = 2
    /\ Charset[1] \notin Returned
    /\ \A letter \in Returned :
        SubkeyScore(call_args[1], LetterHistogram(call_args[2]), Charset[1])
            < SubkeyScore(call_args[1], LetterHistogram(call_args[2]), letter)

\* ------------------------------------------- _get_likely_key_lengths: claim C27
\* The separations find_repeated_sequences recorded for the text, as the
\* pairs of a repeated sequence and a place in its list.
Recorded ==
    LET sequences == FindRepeatedSequences(call_args[1], DefaultLength)
    IN  UNION {{<<key, n>> : n \in DOMAIN sequences[key]} :
                  key \in DOMAIN sequences}

\* How many recorded separations the number divides.
Divided(number) ==
    LET sequences == FindRepeatedSequences(call_args[1], DefaultLength)
    IN  Cardinality({pair \in Recorded :
                        sequences[pair[1]][pair[2]] % number = 0})

\* C27: _get_likely_key_lengths returns exactly the divisors from 2 on of the
\* recorded separations (a separation itself included) that are not over
\* maximum_key_length, each once, from the one that divides most separations
\* to the one that divides fewest.
C27_LikelyKeyLengths ==
    (call_pc = "returned" /\ call_fn = "_get_likely_key_lengths") =>
        /\ {call_ret[n] : n \in DOMAIN call_ret}
               = {number \in 2..call_args[2] : Divided(number) > 0}
        /\ \A n, m \in DOMAIN call_ret : n < m =>
            /\ call_ret[n] # call_ret[m]
            /\ Divided(call_ret[n]) >= Divided(call_ret[m])

\* The key lengths returned start with 2 and 4, 2 divides more separations
\* than the last one, and a separation is itself one of the key lengths.
C27_Witness ==
    /\ call_pc = "returned"
    /\ call_fn = "_get_likely_key_lengths"
    /\ Len(call_ret) >= 3
    /\ call_ret[1] = 2
    /\ call_ret[2] = 4
    /\ Divided(2) > Divided(call_ret[Len(call_ret)])
    /\ \E n \in DOMAIN call_ret : Divided(call_ret[n]) = 1

\* ------------------------------- hack_substitution / hack_substitution_mp: C30
\* C30: for every ciphertext, charset and dictionary store,
\* hack_substitution_mp returns the pair hack_substitution returns, whatever
\* the order in which the workers of the pool finish: its pair is the best
\* pair of the keys the sequential run found.
C30_SameKeyAndProbability ==
    (sub_pc = "done" /\ call_pc = "returned") =>
        /\ call_ret \in BestKeys(keys_found)
        /\ call_ret.probability = hacked.probability

====
